---- MODULE Spec2Model ----
(***************************************************************************)
(* Link Store of fs_link_manager: src/src/core/database.py (LinkDatabase)  *)
(* over one SQLite file.  The file holds the committed table `links` and   *)
(* the AUTOINCREMENT counter; every store instance owns one connection     *)
(* with the transaction state the Python sqlite3 module keeps for it.      *)
(***************************************************************************)
EXTENDS Integers, Sequences, FiniteSets, TLC

\* ---------------------------------------------------------------- bounds
MaxId == 3       \* add_link is called while the next id is at most MaxId
MaxLen == 3      \* longest id list handed to reorder

\* ---------------------------------------------------------------- inputs
Stores == {"s1", "s2"}
None == "<None>"
Missing == "<missing>"   \* a key a JSON object does not hold
JsonArray == "<array>"   \* a JSON array or object where a text is expected
Names == {"a"}
Paths == {"p"}
TagVals == {"t"}
Icons == {""}
Times == {"t0"}
Ids == 1..MaxId

RECURSIVE SeqsUpTo(_, _)
SeqsUpTo(S, n) ==
    IF n = 0 THEN {<<>>}
    ELSE LET shorter == SeqsUpTo(S, n - 1)
         IN shorter \cup {Append(q, x) : q \in shorter, x \in S}

\* the lists reorder is given: every list of distinct ids, stored or not,
\* up to MaxLen, and the lists of two ids also with one id twice
IdLists ==
    {ids \in SeqsUpTo(Ids, MaxLen) :
        \/ Len(ids) <= 2
        \/ \A j, k \in 1..Len(ids) : j # k => ids[j] # ids[k]}

\* ------------------------------------------------------ the links table
EmptyRows == [i \in {} |-> 0]
EmptyDb == [rows |-> EmptyRows, seq |-> 0]

MaxOf(S) == CHOOSE m \in S : \A x \in S : x <= m

Positions(rows) == {rows[i].position : i \in DOMAIN rows}

\* SELECT COALESCE(MAX(position), -1) + 1 FROM links
NextPositionByCount(rows) == Cardinality(DOMAIN rows)
NextPosition(rows) ==
    IF DOMAIN rows = {} THEN 0 ELSE MaxOf(Positions(rows)) + 1

\* id INTEGER PRIMARY KEY AUTOINCREMENT: one more than the largest id ever
\* stored (sqlite_sequence), never below the largest id in the table
NextRowidNoAutoincrement(db) ==
    IF DOMAIN db.rows = {} THEN 1 ELSE MaxOf(DOMAIN db.rows) + 1
NextRowid(db) == MaxOf({db.seq} \cup DOMAIN db.rows) + 1

\* name TEXT NOT NULL, path TEXT NOT NULL
NotNullOk(name, path) == name # None /\ path # None

\* sqlite3 binds text, numbers and None; a list or a dict raises
Bindable(name, path, tags) == JsonArray \notin {name, path, tags}

\* INSERT INTO links(name, path, tags, position, added_at, custom_icon)
InsertRow(db, rec) ==
    LET id == NextRowid(db)
    IN [rows |-> [i \in DOMAIN db.rows \cup {id} |->
                     IF i = id THEN rec ELSE db.rows[i]],
        seq |-> id]

\* UPDATE links SET <supplied fields> WHERE id = ?
UpdateRowAllColumns(db, id, name, path, tags, icon) ==
    [db EXCEPT !.rows = [i \in DOMAIN db.rows |->
        IF i # id THEN db.rows[i]
        ELSE [db.rows[i] EXCEPT !.name = name, !.path = path, !.tags = tags,
                                !.custom_icon = icon]]]
UpdateRow(db, id, name, path, tags, icon) ==
    [db EXCEPT !.rows = [i \in DOMAIN db.rows |->
        IF i # id THEN db.rows[i]
        ELSE [db.rows[i] EXCEPT
                !.name = IF name # None THEN name ELSE @,
                !.path = IF path # None THEN path ELSE @,
                !.tags = IF tags # None THEN tags ELSE @,
                !.custom_icon = IF icon # None THEN icon ELSE @]]]

\* DELETE FROM links WHERE id = ?
DeleteRowRenumber(db, id) ==
    [db EXCEPT !.rows = [i \in DOMAIN db.rows \ {id} |->
        IF id \in DOMAIN db.rows
           /\ db.rows[i].position > db.rows[id].position
        THEN [db.rows[i] EXCEPT !.position = @ - 1] ELSE db.rows[i]]]
DeleteRow(db, id) ==
    [db EXCEPT !.rows = [i \in DOMAIN db.rows \ {id} |-> db.rows[i]]]

\* UPDATE links SET position = ? WHERE id = ?
SetPositionKeep(db, id, pos) == db
SetPosition(db, id, pos) ==
    [db EXCEPT !.rows = [i \in DOMAIN db.rows |->
        IF i = id THEN [db.rows[i] EXCEPT !.position = pos] ELSE db.rows[i]]]

\* for pos, id_ in enumerate(ordered_ids): UPDATE ... (pos, id_)
RECURSIVE ReorderUpdates(_, _, _)
ReorderUpdatesOneBased(db, ids, pos) ==
    IF ids = <<>> THEN db
    ELSE ReorderUpdates(SetPosition(db, Head(ids), pos + 1), Tail(ids), pos + 1)
ReorderUpdates(db, ids, pos) ==
    IF ids = <<>> THEN db
    ELSE ReorderUpdates(SetPosition(db, Head(ids), pos), Tail(ids), pos + 1)

\* ... ORDER BY position ASC: the orders the engine may return; rows with
\* equal positions come in an order the engine chooses
IsIdOrder(rows, q) ==
    /\ Len(q) = Cardinality(DOMAIN rows)
    /\ {q[k] : k \in 1..Len(q)} = DOMAIN rows
    /\ \A j, k \in 1..Len(q) : j < k => q[j] < q[k]
IsPositionOrder(rows, q) ==
    /\ Len(q) = Cardinality(DOMAIN rows)
    /\ {q[k] : k \in 1..Len(q)} = DOMAIN rows
    /\ \A j, k \in 1..Len(q) : j < k => rows[q[j]].position <= rows[q[k]].position

RECURSIVE PermsOf(_)
PermsOf(S) ==
    IF S = {} THEN {<<>>}
    ELSE UNION {{<<x>> \o q : q \in PermsOf(S \ {x})} : x \in S}

PositionOrders(rows) == {q \in PermsOf(DOMAIN rows) : IsPositionOrder(rows, q)}

\* ------------------------------------------------------------- text
\* the characters of a string: the strings of more than one character are
\* listed, every other string of the model is one character long
Chars(str) ==
    CASE str = "" -> <<>>
      [] str = "ab" -> <<"a", "b">>
      [] str = "ba" -> <<"b", "a">>
      [] str = "d/f" -> <<"d", "/", "f">>
      [] str = "d/" -> <<"d", "/">>
      [] str = "d\\f" -> <<"d", "\\", "f">>
      [] str = "C:" -> <<"C", ":">>
      [] str = "C:\\" -> <<"C", ":", "\\">>
      [] str = " a" -> <<" ", "a">>
      [] str = "a " -> <<"a", " ">>
      [] OTHER -> <<str>>

\* str.strip(): leading and trailing whitespace removed
RECURSIVE StripLeft(_)
StripLeft(q) ==
    IF q # <<>> /\ Head(q) = " " THEN StripLeft(Tail(q)) ELSE q

RECURSIVE StripRight(_)
StripRight(q) ==
    IF q # <<>> /\ q[Len(q)] = " "
    THEN StripRight(SubSeq(q, 1, Len(q) - 1)) ELSE q

Strip(q) == StripRight(StripLeft(q))

\* SQLite folds the ASCII letters when LIKE compares characters
Lower(ch) == CASE ch = "A" -> "a" [] ch = "B" -> "b" [] OTHER -> ch

\* txt LIKE pat: % matches any run of characters, _ any one character,
\* every other character itself, letter case ignored
RECURSIVE Like(_, _)
Like(pat, txt) ==
    IF pat = <<>> THEN txt = <<>>
    ELSE IF Head(pat) = "%"
         THEN \E k \in 0..Len(txt) :
                 Like(Tail(pat), SubSeq(txt, k + 1, Len(txt)))
    ELSE IF txt = <<>> THEN FALSE
    ELSE IF Head(pat) = "_" THEN Like(Tail(pat), Tail(txt))
    ELSE /\ Lower(Head(pat)) = Lower(Head(txt))
         /\ Like(Tail(pat), Tail(txt))

\* a column that holds NULL matches no pattern
ColumnLike(value, pat) == value # None /\ Like(pat, Chars(value))

\* ------------------------------------------------- SearchQueryBuilder
\* class SearchOperator(Enum): the names in the order the class body
\* declares them
OperatorNames == <<"CONTAINS", "EQUALS", "STARTS_WITH", "ENDS_WITH">>

\* SearchOperator.<name>: the member the name denotes.  Enum turns a name
\* whose value an earlier name already has into an alias of that member.
SearchOperator(name) ==
    LET OperatorValue(n) ==
            CASE n = "CONTAINS" -> "LIKE"
              [] n = "EQUALS" -> "="
              [] n = "STARTS_WITH" -> "LIKE"
              [] n = "ENDS_WITH" -> "LIKE"
        first == CHOOSE i \in 1..Len(OperatorNames) :
                    /\ OperatorValue(OperatorNames[i]) = OperatorValue(name)
                    /\ \A j \in 1..(i - 1) :
                          OperatorValue(OperatorNames[j]) # OperatorValue(name)
    IN OperatorNames[first]

\* class SearchField(Enum): the values
SearchField == {"name", "path", "tags", "all"}

\* SearchFilter(field, operator, value, case_sensitive); value is the
\* sequence of its characters
SearchFilter(field, operator, value, case_sensitive) ==
    [field |-> field, operator |-> operator, value |-> value,
     case_sensitive |-> case_sensitive]

\* sep.join(parts) on sequences of tokens
RECURSIVE Join(_, _)
Join(parts, sep) ==
    IF parts = <<>> THEN <<>>
    ELSE IF Len(parts) = 1 THEN parts[1]
    ELSE parts[1] \o <<sep>> \o Join(Tail(parts), sep)

\* list.extend over a sequence of lists
RECURSIVE Extend(_)
ExtendAtFront(lists) ==
    IF lists = <<>> THEN <<>> ELSE Extend(Tail(lists)) \o Head(lists)
Extend(lists) ==
    IF lists = <<>> THEN <<>> ELSE Head(lists) \o Extend(Tail(lists))

\* SearchFilter.to_sql(): the WHERE clause as the sequence of its tokens,
\* and the parameters, one for every ? in it
to_sql(f) ==
    LET fields == IF f.field = "all" THEN <<"name", "path", "tags">>
                  ELSE <<f.field>>
        param_value ==
            IF f.operator = SearchOperator("CONTAINS")
            THEN <<"%">> \o f.value \o <<"%">>
            ELSE IF f.operator = SearchOperator("STARTS_WITH")
            THEN f.value \o <<"%">>
            ELSE IF f.operator = SearchOperator("ENDS_WITH")
            THEN <<"%">> \o f.value
            ELSE f.value
        condition(field) ==
            IF f.operator \in {SearchOperator("CONTAINS"),
                               SearchOperator("STARTS_WITH"),
                               SearchOperator("ENDS_WITH")}
            THEN <<field, "LIKE", "?">>
            ELSE <<field, "=", "?">>
    IN [where_clause |->
            Join([i \in 1..Len(fields) |-> condition(fields[i])], "OR"),
        params |-> [i \in 1..Len(fields) |-> param_value]]

\* SearchQueryBuilder(): __init__
SearchQueryBuilder ==
    [filters |-> <<>>, order_by |-> "position", order_direction |-> "ASC"]

add_filter(b, field, value, operator, case_sensitive) ==
    [b EXCEPT !.filters =
        Append(@, SearchFilter(field, operator, value, case_sensitive))]

simple_search(b, query) ==
    IF Strip(Chars(query)) # <<>>
    THEN add_filter(b, "all", Strip(Chars(query)),
                    SearchOperator("CONTAINS"), FALSE)
    ELSE b

\* str.upper() of the directions the model hands to set_order
Upper(str) ==
    CASE str = "asc" -> "ASC"
      [] str = "desc" -> "DESC"
      [] str = "sideways" -> "SIDEWAYS"
      [] OTHER -> str

set_order(b, field, direction) ==
    [b EXCEPT !.order_by = field, !.order_direction = Upper(direction)]

\* build(): the query as the sequence of its tokens, and the parameters.
\* order_by and order_direction are formatted into the text as they are.
build_without_parentheses(b) ==
    LET base_query ==
            <<"SELECT id, name, path, tags, position, added_at FROM links">>
        order == <<"ORDER BY", b.order_by, b.order_direction, ";">>
        where_conditions ==
            [i \in 1..Len(b.filters) |-> to_sql(b.filters[i]).where_clause]
        all_params ==
            Extend([i \in 1..Len(b.filters) |-> to_sql(b.filters[i]).params])
    IN IF b.filters = <<>>
       THEN [query |-> base_query \o order, params |-> <<>>]
       ELSE [query |-> base_query \o <<"WHERE">>
                          \o Join(where_conditions, "AND") \o order,
             params |-> all_params]
build(b) ==
    LET base_query ==
            <<"SELECT id, name, path, tags, position, added_at FROM links">>
        order == <<"ORDER BY", b.order_by, b.order_direction, ";">>
        condition(i) ==
            IF Len(b.filters) > 1
            THEN <<"(">> \o to_sql(b.filters[i]).where_clause \o <<")">>
            ELSE to_sql(b.filters[i]).where_clause
        where_conditions == [i \in 1..Len(b.filters) |-> condition(i)]
        all_params ==
            Extend([i \in 1..Len(b.filters) |-> to_sql(b.filters[i]).params])
    IN IF b.filters = <<>>
       THEN [query |-> base_query \o order, params |-> <<>>]
       ELSE [query |-> base_query \o <<"WHERE">>
                          \o Join(where_conditions, "AND") \o order,
             params |-> all_params]

RECURSIVE filter_by_tags(_, _, _)
filter_by_tags_first_only(b, tags, match_mode) ==
    IF tags = <<>> THEN b
    ELSE IF match_mode = "OR"
    THEN add_filter(b, "tags", Head(tags), SearchOperator("CONTAINS"), FALSE)
    ELSE filter_by_tags(add_filter(b, "tags", Head(tags),
                                   SearchOperator("CONTAINS"), FALSE),
                        Tail(tags), match_mode)
filter_by_tags(b, tags, match_mode) ==
    IF tags = <<>> THEN b
    ELSE IF match_mode = "OR"
    THEN filter_by_tags(add_filter(b, "tags", Head(tags),
                                   SearchOperator("CONTAINS"), FALSE),
                        Tail(tags), match_mode)
    ELSE filter_by_tags(add_filter(b, "tags", Head(tags),
                                   SearchOperator("CONTAINS"), FALSE),
                        Tail(tags), match_mode)

clear(b) == [b EXCEPT !.filters = <<>>]

\* ------------------------------------------- conn.execute(query, params)
\* column <op> ? on one row: LIKE as above; = compares the text character
\* by character, letter case included; NULL satisfies neither
Comparison(value, op, param) ==
    IF op = "LIKE" THEN ColumnLike(value, param)
    ELSE value # None /\ Chars(value) = param

\* The value of the WHERE expression on one row, read from token i on with
\* the parameters bound from the k-th on: AND binds tighter than OR, a
\* parenthesis encloses an expression.  v: the value, i: the token after
\* the part read, k: the parameter the next ? takes.
RECURSIVE ExprOr(_, _, _, _, _)
RECURSIVE ExprAnd(_, _, _, _, _)
RECURSIVE ExprFactor(_, _, _, _, _)
ExprFactor(ts, i, k, params, rec) ==
    IF ts[i] = "("
    THEN LET r == ExprOr(ts, i + 1, k, params, rec)
         IN [v |-> r.v, i |-> r.i + 1, k |-> r.k]
    ELSE [v |-> Comparison(rec[ts[i]], ts[i + 1], params[k]),
          i |-> i + 3, k |-> k + 1]
ExprAnd(ts, i, k, params, rec) ==
    LET f == ExprFactor(ts, i, k, params, rec)
    IN IF f.i <= Len(ts) /\ ts[f.i] = "AND"
       THEN LET r == ExprAnd(ts, f.i + 1, f.k, params, rec)
            IN [v |-> f.v /\ r.v, i |-> r.i, k |-> r.k]
       ELSE f
ExprOr(ts, i, k, params, rec) ==
    LET t == ExprAnd(ts, i, k, params, rec)
    IN IF t.i <= Len(ts) /\ ts[t.i] = "OR"
       THEN LET r == ExprOr(ts, t.i + 1, t.k, params, rec)
            IN [v |-> t.v \/ r.v, i |-> r.i, k |-> r.k]
       ELSE t

\* the rows the statement selects; ts: the tokens between WHERE and
\* ORDER BY
Selected(rows, q) ==
    LET ts == IF Len(q.query) > 5
              THEN SubSeq(q.query, 3, Len(q.query) - 4) ELSE <<>>
        keep == IF ts = <<>> THEN DOMAIN rows
                ELSE {i \in DOMAIN rows :
                        ExprOr(ts, 1, 1, q.params, rows[i]).v}
    IN [i \in keep |-> rows[i]]

\* ORDER BY <term> <direction>: the engine sorts on a column of the table;
\* text that is no column and no direction makes the statement fail (the
\* model hands set_order column names and one text that is no expression)
Prepares(q) ==
    /\ q.query[Len(q.query) - 2] \in {"id", "position"}
    /\ q.query[Len(q.query) - 1] \in {"ASC", "DESC"}

\* the orders the engine may return the rows in; rows with equal keys come
\* in an order the engine chooses
Orders(rows, column, direction) ==
    LET SortKey(i) == IF column = "id" THEN i ELSE rows[i][column]
    IN IF column = "position" /\ direction = "ASC" THEN PositionOrders(rows)
       ELSE {q \in PermsOf(DOMAIN rows) :
               \A j, k \in 1..Len(q) : j < k =>
                  IF direction = "ASC" THEN SortKey(q[j]) <= SortKey(q[k])
                  ELSE SortKey(q[j]) >= SortKey(q[k])}

\* fetchall(): the ids of the rows in the order returned
Fetchall(rows, q) ==
    Orders(Selected(rows, q), q.query[Len(q.query) - 2],
           q.query[Len(q.query) - 1])

\* --------------------------------------------- sqlite3 connection state
\* txn: the connection is inside a transaction (Connection.in_transaction);
\* work: the table as that transaction sees it, uncommitted writes included
NoTxn == [txn |-> FALSE, work |-> EmptyDb]

\* what a statement on the connection reads
View(f, c) == IF c.txn THEN c.work ELSE f

\* the implicit BEGIN the sqlite3 module issues before INSERT/UPDATE/DELETE
Begin(f, c) == IF c.txn THEN c ELSE [txn |-> TRUE, work |-> f]

\* Connection.commit(): the transaction's table becomes the file's
CommitFile(f, c) == IF c.txn THEN c.work ELSE f

\* uri mode chosen by __init__
ConnModeAlwaysWritable(ro) == "rwc"
ConnMode(ro) == IF ro THEN "ro" ELSE "rwc"


\* ------------------------------------------------- LinkDatabase methods
\* The outcome of one call: the file and the connection's transaction
\* state after it, how it ended (result), the id it returned (ret), the
\* ids of the records it returned (out) and how many statements, commit
\* and rollback included, it sent to the connection (stmts).
Outcome(f, c, result, ret, out, stmts) ==
    [file |-> f, txn |-> c, result |-> result, ret |-> ret, out |-> out,
     stmts |-> stmts]

NewRecord(name, path, tags, pos, now, icon) ==
    [name |-> name, path |-> path, tags |-> tags, position |-> pos,
     added_at |-> now, custom_icon |-> icon]

add_link(f, c, isOpen, mode, name, path, tags, icon, now) ==
    IF ~isOpen THEN Outcome(f, c, "AttributeError", 0, <<>>, 0)
    ELSE LET next_pos == NextPosition(View(f, c).rows)
             c1 == Begin(f, c)
         IN IF mode = "ro" THEN Outcome(f, c1, "OperationalError", 0, <<>>, 2)
            ELSE IF ~Bindable(name, path, tags)
                 THEN Outcome(f, c1, "ProgrammingError", 0, <<>>, 2)
            ELSE IF ~NotNullOk(name, path)
                 THEN Outcome(f, c1, "IntegrityError", 0, <<>>, 2)
            ELSE LET w == InsertRow(c1.work,
                              NewRecord(name, path, tags, next_pos, now, icon))
                 IN Outcome(w, NoTxn, "ok", w.seq, <<>>, 3)

update_link(f, c, isOpen, mode, id, name, path, tags, icon) ==
    IF name = None /\ path = None /\ tags = None /\ icon = None
    THEN Outcome(f, c, "ok", 0, <<>>, 0)
    ELSE IF ~isOpen THEN Outcome(f, c, "AttributeError", 0, <<>>, 0)
    ELSE LET c1 == Begin(f, c)
         IN IF mode = "ro" THEN Outcome(f, c1, "OperationalError", 0, <<>>, 1)
            ELSE Outcome(UpdateRow(c1.work, id, name, path, tags, icon),
                         NoTxn, "ok", 0, <<>>, 2)

delete_link_checked(f, c, isOpen, mode, id) ==
    IF ~isOpen THEN Outcome(f, c, "AttributeError", 0, <<>>, 0)
    ELSE LET c1 == Begin(f, c)
         IN IF mode = "ro" THEN Outcome(f, c1, "OperationalError", 0, <<>>, 1)
            ELSE IF id \notin DOMAIN c1.work.rows
                 THEN Outcome(f, c1, "ValueError", 0, <<>>, 1)
            ELSE Outcome(DeleteRow(c1.work, id), NoTxn, "ok", 0, <<>>, 2)
delete_link(f, c, isOpen, mode, id) ==
    IF ~isOpen THEN Outcome(f, c, "AttributeError", 0, <<>>, 0)
    ELSE LET c1 == Begin(f, c)
         IN IF mode = "ro" THEN Outcome(f, c1, "OperationalError", 0, <<>>, 1)
            ELSE Outcome(DeleteRow(c1.work, id), NoTxn, "ok", 0, <<>>, 2)

\* list_links(search): the rows simple_search keeps, ORDER BY position
\* ASC; order is the row order the engine returned
list_links(f, c, isOpen, order) ==
    IF ~isOpen THEN Outcome(f, c, "AttributeError", 0, <<>>, 0)
    ELSE Outcome(f, c, "ok", 0, order, 1)

\* search_links(builder): the statement build() made is executed; order is
\* the row order the engine returned
search_links(f, c, isOpen, b, order) ==
    IF ~isOpen THEN Outcome(f, c, "AttributeError", 0, <<>>, 0)
    ELSE IF ~Prepares(build(b)) THEN Outcome(f, c, "sqlite3.Error", 0, <<>>, 1)
    ELSE Outcome(f, c, "ok", 0, order, 1)

\* the SELECT names seven columns and LinkRecord takes six fields
get_link_by_id(f, c, isOpen, id) ==
    IF ~isOpen THEN Outcome(f, c, "AttributeError", 0, <<>>, 0)
    ELSE IF id \in DOMAIN View(f, c).rows
         THEN Outcome(f, c, "TypeError", 0, <<>>, 1)
         ELSE Outcome(f, c, "ok", 0, <<>>, 1)

\* reorder: with self.transaction(): the UPDATEs; then commit, or rollback
\* and re-raise
reorder_rejects_unknown(f, c, isOpen, ro, mode, ids) ==
    IF ro THEN Outcome(f, c, "RuntimeError", 0, <<>>, 0)
    ELSE IF ~isOpen THEN Outcome(f, c, "AttributeError", 0, <<>>, 0)
    ELSE IF ids = <<>> THEN Outcome(CommitFile(f, c), NoTxn, "ok", 0, <<>>, 1)
    ELSE LET c1 == Begin(f, c)
         IN IF mode = "ro"
            THEN Outcome(f, NoTxn, "OperationalError", 0, <<>>, 2)
            ELSE IF \E k \in 1..Len(ids) : ids[k] \notin DOMAIN c1.work.rows
            THEN Outcome(f, NoTxn, "KeyError", 0, <<>>, 2)
            ELSE Outcome(ReorderUpdates(c1.work, ids, 0), NoTxn, "ok", 0,
                         <<>>, Len(ids) + 1)
reorder(f, c, isOpen, ro, mode, ids) ==
    IF ro THEN Outcome(f, c, "RuntimeError", 0, <<>>, 0)
    ELSE IF ~isOpen THEN Outcome(f, c, "AttributeError", 0, <<>>, 0)
    ELSE IF ids = <<>> THEN Outcome(CommitFile(f, c), NoTxn, "ok", 0, <<>>, 1)
    ELSE LET c1 == Begin(f, c)
         IN IF mode = "ro"
            THEN Outcome(f, NoTxn, "OperationalError", 0, <<>>, 2)
            ELSE Outcome(ReorderUpdates(c1.work, ids, 0), NoTxn, "ok", 0,
                         <<>>, Len(ids) + 1)

\* reorder, one pass of the loop: the UPDATE of one id, inside the
\* transaction the sqlite3 module begins for the first of them
reorder_update_autocommit(f, c, id, pos) ==
    Outcome(SetPosition(View(f, c), id, pos), NoTxn, "ok", 0, <<>>, 1)
reorder_update(f, c, id, pos) ==
    Outcome(f, [txn |-> TRUE, work |-> SetPosition(Begin(f, c).work, id, pos)],
            "ok", 0, <<>>, 1)

\* transaction(): the part before the yield
transaction_enter(f, c, ro) ==
    IF ro THEN Outcome(f, c, "RuntimeError", 0, <<>>, 0)
    ELSE Outcome(f, c, "ok", 0, <<>>, 0)

\* transaction(): the block ended normally; commit, and the except clause
\* when the commit itself raises
transaction_commit(f, c, isOpen) ==
    IF ~isOpen THEN Outcome(f, c, "AttributeError", 0, <<>>, 0)
    ELSE Outcome(CommitFile(f, c), NoTxn, "ok", 0, <<>>, 1)

\* transaction(): the block raised exc; rollback and re-raise
transaction_rollback_commits(f, c, isOpen, exc) ==
    IF ~isOpen THEN Outcome(f, c, "AttributeError", 0, <<>>, 0)
    ELSE Outcome(CommitFile(f, c), NoTxn, exc, 0, <<>>, 1)
transaction_rollback(f, c, isOpen, exc) ==
    IF ~isOpen THEN Outcome(f, c, "AttributeError", 0, <<>>, 0)
    ELSE Outcome(f, NoTxn, exc, 0, <<>>, 1)

\* transaction(): the block raised an exception that is no Exception
\* (KeyboardInterrupt, SystemExit): `except Exception` does not catch it,
\* neither commit nor rollback runs
transaction_interrupt(f, c) ==
    Outcome(f, c, "KeyboardInterrupt", 0, <<>>, 0)

\* ------------------------------------------ LinkRecord and LinkManager
\* LinkRecord(*row).__post_init__: tags None becomes ""
LinkRecord(row) ==
    [name |-> row.name, path |-> row.path,
     tags |-> IF row.tags = None \/ row.tags = "" THEN "" ELSE row.tags]

\* os.path.basename(path): the text after the last separator; posixpath
\* splits at "/", ntpath at "/" and "\" after a drive letter and its colon
RECURSIVE AfterLast(_, _)
AfterLast(q, seps) ==
    IF q = <<>> \/ q[Len(q)] \in seps THEN <<>>
    ELSE Append(AfterLast(SubSeq(q, 1, Len(q) - 1), seps), q[Len(q)])

basename(q, os) ==
    LET separators == IF os = "nt" THEN {"/", "\\"} ELSE {"/"}
        tail == IF os = "nt" /\ Len(q) >= 2 /\ q[2] = ":"
                THEN SubSeq(q, 3, Len(q)) ELSE q
    IN AfterLast(tail, separators)

\* LinkRecord.display_text() on the platform os, as characters
display_text_name_or_path(rec, os) ==
    LET base == IF rec.name # "" THEN Chars(rec.name) ELSE Chars(rec.path)
        tag_part == IF rec.tags # ""
                    THEN <<" ", " ", "[">> \o Chars(rec.tags) \o <<"]">>
                    ELSE <<>>
    IN base \o tag_part \o <<"\n">> \o Chars(rec.path)
display_text(rec, os) ==
    LET base == IF rec.name # "" THEN Chars(rec.name)
                ELSE IF basename(Chars(rec.path), os) # <<>>
                THEN basename(Chars(rec.path), os)
                ELSE Chars(rec.path)
        tag_part == IF rec.tags # ""
                    THEN <<" ", " ", "[">> \o Chars(rec.tags) \o <<"]">>
                    ELSE <<>>
    IN base \o tag_part \o <<"\n">> \o Chars(rec.path)

\* an item of the "links" list of a JSON file: an object with or without
\* the keys name, path and tags, or a value that is no object
JsonObject(name, path, tags) ==
    [kind |-> "object", name |-> name, path |-> path, tags |-> tags]
JsonOther ==
    [kind |-> "other", name |-> Missing, path |-> Missing, tags |-> Missing]

\* link.get(key, ''): the value under the key, '' when the key is missing
Get(value, default) == IF value = Missing THEN default ELSE value

\* export_links: {'version': '1.0', 'links': [{'name', 'path', 'tags'} of
\* every LinkRecord list_links returned]}
export_links_fills_name(rows, order) ==
    LET links == [k \in 1..Len(order) |-> LinkRecord(rows[order[k]])]
    IN [version |-> "1.0",
        links |-> [k \in 1..Len(order) |->
                      JsonObject(IF links[k].name = "" THEN links[k].path
                                 ELSE links[k].name,
                                 links[k].path, links[k].tags)],
        by |-> "export_links", records |-> links]
export_links(rows, order) ==
    LET links == [k \in 1..Len(order) |-> LinkRecord(rows[order[k]])]
    IN [version |-> "1.0",
        links |-> [k \in 1..Len(order) |->
                      JsonObject(links[k].name, links[k].path, links[k].tags)],
        by |-> "export_links", records |-> links]

\* import_links, the loop inside `with self.db.transaction():`: an item
\* that is no dict or holds no path is skipped; add_link is called for the
\* others, count grows when it returns, an exception it raises is caught
RECURSIVE import_items_count_first(_, _, _, _, _, _)
RECURSIVE import_items(_, _, _, _, _, _)
import_items_count_first(f, c, mode, links, count, now) ==
    IF links = <<>> THEN Outcome(f, c, "ok", count, <<>>, 0)
    ELSE LET link == Head(links)
         IN IF link.kind # "object" \/ link.path = Missing
            THEN import_items(f, c, mode, Tail(links), count, now)
            ELSE LET o == add_link(f, c, TRUE, mode, Get(link.name, ""),
                                   link.path, Get(link.tags, ""), "", now)
                 IN import_items(o.file, o.txn, mode, Tail(links),
                                 count + 1, now)
import_items(f, c, mode, links, count, now) ==
    IF links = <<>> THEN Outcome(f, c, "ok", count, <<>>, 0)
    ELSE LET link == Head(links)
         IN IF link.kind # "object" \/ link.path = Missing
            THEN import_items(f, c, mode, Tail(links), count, now)
            ELSE LET o == add_link(f, c, TRUE, mode, Get(link.name, ""),
                                   link.path, Get(link.tags, ""), "", now)
                 IN import_items(o.file, o.txn, mode, Tail(links),
                                 IF o.result = "ok" THEN count + 1 ELSE count,
                                 now)

\* import_links(file_path): the version is checked, the loop runs inside
\* transaction(), whose exit commits; the count is returned
import_links(f, c, isOpen, ro, mode, data, now) ==
    IF data.version # "1.0" THEN Outcome(f, c, "ValueError", 0, <<>>, 0)
    ELSE IF transaction_enter(f, c, ro).result # "ok"
    THEN transaction_enter(f, c, ro)
    ELSE IF ~isOpen THEN Outcome(f, c, "AttributeError", 0, <<>>, 0)
    ELSE LET o == import_items(f, c, mode, data.links, 0, now)
             e == transaction_commit(o.file, o.txn, isOpen)
         IN Outcome(e.file, e.txn, "ok", o.ret, <<>>, 0)


\* ---------------------------------------------------------------- state
VARIABLES
    file,       \* the committed content of the backing file
    conn,       \* per store: "unopened" (not constructed), "open", "None"
    read_only,  \* per store: self.read_only
    mode,       \* per store: the mode its connection was opened with
    txn,        \* per store: transaction state of its connection
    closes,     \* per store: calls made to the connection's close()
    block,      \* per store: the transaction() block its caller is in
    last,       \* the call completed last, with its arguments and outcome
    returned,   \* history: the ids add_link calls have returned so far
    pc,         \* per store: statement-level position inside add_link
    pend,       \* per store: locals of the add_link call in progress
    builder,    \* the SearchQueryBuilder object the caller holds
    jsonfile,   \* the JSON file export_links writes and import_links reads
    shown       \* the LinkRecord display_text() ran on last, and its text

\* what the caller of the store holds besides the store
caller == <<builder, jsonfile, shown>>

vars == <<file, conn, read_only, mode, txn, closes, block, last, returned,
          pc, pend, caller>>

\* in: the caller is inside `with db.transaction():`; startSeq: the largest
\* id assigned before the block was entered; adds: add_link calls that
\* returned inside the block; exc: the exception the last call inside the
\* block raised ("" when it returned)
NoBlock == [in |-> FALSE, startSeq |-> 0, adds |-> 0, exc |-> ""]

\* ids, done, pre: the list a reorder call in progress was given, how many
\* of its UPDATEs ran, and the table its first UPDATE found
NoPend == [next_pos |-> 0, name |-> "", path |-> "", tags |-> "", icon |-> "",
           now |-> "", ids |-> <<>>, done |-> 0, pre |-> EmptyDb]

WriteOps == {"add_link", "update_link", "delete_link", "reorder"}

\* inner: an exception the call caught and did not re-raise; search: the
\* string a list_links call was given; args: the text arguments a call on
\* the builder was given
Last(op, s, id, ids, o, inner) ==
    [op |-> op, s |-> s, id |-> id, ids |-> ids, result |-> o.result,
     ret |-> o.ret, out |-> o.out, stmts |-> o.stmts, inner |-> inner,
     search |-> "", args |-> <<>>]

IsOpen(s) == conn[s] = "open"

\* before any export: no file (by: what wrote the file; records: the
\* LinkRecords the export that wrote it read); before any display_text():
\* no text (name, path, tags: what the LinkRecord was made of; os: the
\* platform os.path stands for)
NoJson == [version |-> "", links |-> <<>>, by |-> "", records |-> <<>>]
NoShown == [name |-> "", path |-> "", tags |-> "", os |-> "", text |-> <<>>]

\* the caller holds a new builder
CallerInit ==
    /\ builder = SearchQueryBuilder
    /\ jsonfile = NoJson
    /\ shown = NoShown

Constructed(f, s) ==
    Last("__init__", s, 0, <<>>, Outcome(f, NoTxn, "ok", 0, <<>>, 0), "")

\* LinkDatabase(db_path) on a new file: the schema is created, the table
\* is empty
Init ==
    /\ file = EmptyDb
    /\ conn = [s \in Stores |-> IF s = "s1" THEN "open" ELSE "unopened"]
    /\ read_only = [s \in Stores |-> FALSE]
    /\ mode = [s \in Stores |-> IF s = "s1" THEN ConnMode(FALSE) ELSE "none"]
    /\ txn = [s \in Stores |-> NoTxn]
    /\ closes = [s \in Stores |-> 0]
    /\ block = [s \in Stores |-> NoBlock]
    /\ last = Constructed(EmptyDb, "s1")
    /\ returned = {}
    /\ pc = [s \in Stores |-> "idle"]
    /\ pend = [s \in Stores |-> NoPend]
    /\ CallerInit

\* a call of store s completed with outcome o; l is the record of it
CompletedStore(s, l, o) ==
    /\ file' = o.file
    /\ txn' = [txn EXCEPT ![s] = o.txn]
    /\ last' = l
    /\ returned' = IF l.op = "add_link" /\ o.result = "ok"
                   THEN returned \cup {o.ret} ELSE returned
    /\ block' = [block EXCEPT ![s] =
          IF @.in
          THEN [@ EXCEPT !.adds = IF l.op = "add_link" /\ o.result = "ok"
                                  THEN @ + 1 ELSE @,
                         !.exc = IF o.result = "ok" THEN "" ELSE o.result]
          ELSE NoBlock]
    /\ UNCHANGED <<conn, read_only, mode, closes, pc, pend>>

Completed(s, l, o) ==
    /\ CompletedStore(s, l, o)
    /\ UNCHANGED caller

Call(s, op, id, ids, o) == Completed(s, Last(op, s, id, ids, o, ""), o)

AddLink(s, name, path, tags, icon, now) ==
    /\ conn[s] # "unopened"
    /\ pc[s] = "idle"
    /\ LET o == add_link(file, txn[s], IsOpen(s), mode[s],
                         name, path, tags, icon, now)
       IN /\ o.result = "ok" => o.ret <= MaxId
          /\ Call(s, "add_link", 0, <<>>, o)

UpdateLink(s, id, name, path, tags, icon) ==
    /\ conn[s] # "unopened"
    /\ pc[s] = "idle"
    /\ Call(s, "update_link", id, <<>>,
            update_link(file, txn[s], IsOpen(s), mode[s],
                        id, name, path, tags, icon))

DeleteLink(s, id) ==
    /\ conn[s] # "unopened"
    /\ pc[s] = "idle"
    /\ Call(s, "delete_link", id, <<>>,
            delete_link(file, txn[s], IsOpen(s), mode[s], id))

ListLinks(s, search) ==
    /\ conn[s] # "unopened"
    /\ pc[s] = "idle"
    /\ \E order \in
            Fetchall(View(file, txn[s]).rows,
                     build(simple_search(SearchQueryBuilder, search))) :
          LET o == list_links(file, txn[s], IsOpen(s), order)
          IN Completed(s, [Last("list_links", s, 0, <<>>, o, "")
                              EXCEPT !.search = search], o)

GetLinkById(s, id) ==
    /\ conn[s] # "unopened"
    /\ pc[s] = "idle"
    /\ Call(s, "get_link_by_id", id, <<>>,
            get_link_by_id(file, txn[s], IsOpen(s), id))

Reorder(s, ids) ==
    /\ conn[s] # "unopened"
    /\ pc[s] = "idle"
    /\ Call(s, "reorder", 0, ids,
            reorder(file, txn[s], IsOpen(s), read_only[s], mode[s], ids))

\* entering `with db.transaction():`
TransactionEnter(s) ==
    /\ conn[s] # "unopened"
    /\ pc[s] = "idle"
    /\ ~block[s].in
    /\ LET o == transaction_enter(file, txn[s], read_only[s])
       IN /\ file' = o.file
          /\ txn' = [txn EXCEPT ![s] = o.txn]
          /\ last' = Last("transaction_enter", s, 0, <<>>, o, "")
          /\ block' = [block EXCEPT ![s] =
                IF o.result = "ok"
                THEN [in |-> TRUE, startSeq |-> View(file, txn[s]).seq,
                      adds |-> 0, exc |-> ""]
                ELSE NoBlock]
    /\ UNCHANGED <<caller, conn, read_only, mode, closes, returned, pc, pend>>

\* the block is left normally
TransactionCommit(s) ==
    /\ block[s].in
    /\ LET o == transaction_commit(file, txn[s], IsOpen(s))
       IN /\ file' = o.file
          /\ txn' = [txn EXCEPT ![s] = o.txn]
          /\ last' = Last("transaction_commit", s, 0, <<>>, o, "")
    /\ block' = [block EXCEPT ![s].in = FALSE]
    /\ UNCHANGED <<caller, conn, read_only, mode, closes, returned, pc, pend>>

\* the block is left by an exception: the one the last call inside it
\* raised, or one raised by the caller's own code
TransactionRollback(s) ==
    /\ block[s].in
    /\ LET exc == IF block[s].exc # "" THEN block[s].exc ELSE "Exception"
           o == transaction_rollback(file, txn[s], IsOpen(s), exc)
       IN /\ file' = o.file
          /\ txn' = [txn EXCEPT ![s] = o.txn]
          /\ last' = Last("transaction_rollback", s, 0, <<>>, o, "")
    /\ block' = [block EXCEPT ![s].in = FALSE]
    /\ UNCHANGED <<caller, conn, read_only, mode, closes, returned, pc, pend>>

\* the block is left by an exception that is no Exception
TransactionInterrupt(s) ==
    /\ block[s].in
    /\ LET o == transaction_interrupt(file, txn[s])
       IN /\ file' = o.file
          /\ txn' = [txn EXCEPT ![s] = o.txn]
          /\ last' = Last("transaction_interrupt", s, 0, <<>>, o, "")
    /\ block' = [block EXCEPT ![s].in = FALSE]
    /\ UNCHANGED <<caller, conn, read_only, mode, closes, returned, pc, pend>>

\* close(): closeFails is the connection's close() raising sqlite3.Error
CloseKeepsFailedConn(s, closeFails) ==
    /\ conn[s] # "unopened"
    /\ pc[s] = "idle"
    /\ IF conn[s] = "open"
       THEN /\ closes' = [closes EXCEPT ![s] = @ + 1]
            /\ conn' = [conn EXCEPT ![s] = IF closeFails THEN @ ELSE "None"]
            /\ txn' = [txn EXCEPT ![s] = NoTxn]
            /\ last' = Last("close", s, 0, <<>>,
                            Outcome(file, NoTxn, "ok", 0, <<>>, 1),
                            IF closeFails THEN "sqlite3.Error" ELSE "")
       ELSE /\ UNCHANGED <<closes, conn, txn>>
            /\ last' = Last("close", s, 0, <<>>,
                            Outcome(file, NoTxn, "ok", 0, <<>>, 0), "")
    /\ block' = [block EXCEPT ![s] =
                    IF @.in THEN [@ EXCEPT !.exc = ""] ELSE NoBlock]
    /\ UNCHANGED <<caller, file, read_only, mode, returned, pend, pc>>
Close(s, closeFails) ==
    /\ conn[s] # "unopened"
    /\ pc[s] = "idle"
    /\ IF conn[s] = "open"
       THEN /\ closes' = [closes EXCEPT ![s] = @ + 1]
            /\ conn' = [conn EXCEPT ![s] = "None"]
            /\ txn' = [txn EXCEPT ![s] = NoTxn]
            /\ last' = Last("close", s, 0, <<>>,
                            Outcome(file, NoTxn, "ok", 0, <<>>, 1),
                            IF closeFails THEN "sqlite3.Error" ELSE "")
       ELSE /\ UNCHANGED <<closes, conn, txn>>
            /\ last' = Last("close", s, 0, <<>>,
                            Outcome(file, NoTxn, "ok", 0, <<>>, 0), "")
    /\ block' = [block EXCEPT ![s] =
                    IF @.in THEN [@ EXCEPT !.exc = ""] ELSE NoBlock]
    /\ UNCHANGED <<caller, file, read_only, mode, returned, pend, pc>>

OptOf(S) == S \cup {None}

\* the keyword arguments update_link is called with: none, the name alone,
\* all four
UpdateArgs ==
    {<<None, None, None, None>>}
    \cup {<<name, None, None, None>> : name \in Names}
    \cup (Names \X Paths \X TagVals \X Icons)

\* ------------------------------------------------------------------------
\* Spec: one read-write store on a new file, its caller issuing add_link,
\* update_link, delete_link, reorder and list_links one after the other.
Next ==
    \/ \E name \in OptOf(Names), path \in Paths, tags \in TagVals,
          icon \in Icons, now \in Times :
          AddLink("s1", name, path, tags, icon, now)
    \/ \E id \in Ids, a \in UpdateArgs :
          UpdateLink("s1", id, a[1], a[2], a[3], a[4])
    \/ \E id \in Ids : DeleteLink("s1", id)
    \/ \E ids \in IdLists : Reorder("s1", ids)
    \/ ListLinks("s1", "")

Spec == Init /\ [][Next]_vars

\* ------------------------------------------------------------------------
\* LifeSpec: the life of one store opened, read-write or read-only, on a
\* file an earlier session left: every method, transaction() blocks and
\* close().  reorder is given lists of at most one id here: on a read-only
\* or closed store it fails before or at its first statement.
Rec(pos) == NewRecord("a", "p", "t", pos, "t0", "")
Db1 == InsertRow(EmptyDb, Rec(0))
Db2 == InsertRow(Db1, Rec(1))
Db3 == DeleteRow(Db2, 1)
PrePopulated == {EmptyDb, Db2, Db3}

LifeLists == {ids \in IdLists : Len(ids) <= 1}

LifeInit ==
    /\ file \in PrePopulated
    /\ conn = [s \in Stores |-> IF s = "s1" THEN "open" ELSE "unopened"]
    /\ \E ro \in BOOLEAN :
         /\ read_only = [s \in Stores |-> IF s = "s1" THEN ro ELSE FALSE]
         /\ mode = [s \in Stores |->
                       IF s = "s1" THEN ConnMode(ro) ELSE "none"]
    /\ txn = [s \in Stores |-> NoTxn]
    /\ closes = [s \in Stores |-> 0]
    /\ block = [s \in Stores |-> NoBlock]
    /\ last = Constructed(file, "s1")
    /\ returned = {}
    /\ pc = [s \in Stores |-> "idle"]
    /\ pend = [s \in Stores |-> NoPend]
    /\ CallerInit

LifeNext ==
    \/ \E name \in OptOf(Names), path \in Paths, tags \in TagVals,
          icon \in Icons, now \in Times :
          AddLink("s1", name, path, tags, icon, now)
    \/ \E id \in Ids, a \in UpdateArgs :
          UpdateLink("s1", id, a[1], a[2], a[3], a[4])
    \/ \E id \in Ids : DeleteLink("s1", id)
    \/ \E ids \in LifeLists : Reorder("s1", ids)
    \/ ListLinks("s1", "")
    \/ \E id \in Ids : GetLinkById("s1", id)
    \/ TransactionEnter("s1")
    \/ TransactionCommit("s1")
    \/ TransactionRollback("s1")
    \/ TransactionInterrupt("s1")
    \/ \E closeFails \in BOOLEAN : Close("s1", closeFails)

LifeSpec == LifeInit /\ [][LifeNext]_vars


\* ------------------------------------------------------------------------
\* ConcSpec: two read-write stores open on the same file, their callers
\* running add_link at the same time, one statement per step.  A statement
\* that needs the write lock waits while the other connection holds it; the
\* runs covered are those in which no wait outlasts busy_timeout, and the
\* arguments are ones the table's constraints accept.
ConcInit ==
    /\ file = EmptyDb
    /\ conn = [s \in Stores |-> "open"]
    /\ read_only = [s \in Stores |-> FALSE]
    /\ mode = [s \in Stores |-> ConnMode(FALSE)]
    /\ txn = [s \in Stores |-> NoTxn]
    /\ closes = [s \in Stores |-> 0]
    /\ block = [s \in Stores |-> NoBlock]
    /\ last = Constructed(EmptyDb, "s2")
    /\ returned = {}
    /\ pc = [s \in Stores |-> "idle"]
    /\ pend = [s \in Stores |-> NoPend]
    /\ CallerInit

\* no other connection is inside a write transaction
WriteLockFree(s) == \A t \in Stores \ {s} : ~txn[t].txn

InProgress == {s \in Stores : pc[s] # "idle"}

\* add_link, first statement: cur.execute("SELECT COALESCE(MAX(position),
\* -1) + 1 ...") and the fetch into next_pos
AddLinkSelect(s, name, path, tags, icon, now) ==
    /\ IsOpen(s)
    /\ pc[s] = "idle"
    /\ file.seq + Cardinality(InProgress) < MaxId
    /\ pend' = [pend EXCEPT ![s] =
                  [NoPend EXCEPT
                     !.next_pos = NextPosition(View(file, txn[s]).rows),
                     !.name = name, !.path = path, !.tags = tags,
                     !.icon = icon, !.now = now]]
    /\ pc' = [pc EXCEPT ![s] = "insert"]
    /\ UNCHANGED <<caller, file, conn, read_only, mode, txn, closes, block, last,
                   returned>>

\* add_link, second statement: the INSERT with the next_pos read before,
\* inside the transaction the sqlite3 module begins for it
AddLinkInsert(s) ==
    /\ pc[s] = "insert"
    /\ WriteLockFree(s)
    /\ txn' = [txn EXCEPT ![s] =
                 [txn |-> TRUE,
                  work |-> InsertRow(Begin(file, txn[s]).work,
                              NewRecord(pend[s].name, pend[s].path,
                                        pend[s].tags, pend[s].next_pos,
                                        pend[s].now, pend[s].icon))]]
    /\ pc' = [pc EXCEPT ![s] = "commit"]
    /\ UNCHANGED <<caller, file, conn, read_only, mode, closes, block, last,
                   returned, pend>>

\* add_link, end: self.conn.commit(); return cur.lastrowid
AddLinkCommit(s) ==
    /\ pc[s] = "commit"
    /\ file' = CommitFile(file, txn[s])
    /\ txn' = [txn EXCEPT ![s] = NoTxn]
    /\ last' = Last("add_link", s, 0, <<>>,
                    Outcome(txn[s].work, NoTxn, "ok", txn[s].work.seq,
                            <<>>, 3), "")
    /\ returned' = returned \cup {txn[s].work.seq}
    /\ pc' = [pc EXCEPT ![s] = "idle"]
    /\ pend' = [pend EXCEPT ![s] = NoPend]
    /\ UNCHANGED <<caller, conn, read_only, mode, closes, block>>

\* delete_link by a caller that is not inside add_link
ConcDeleteLink(s, id) ==
    /\ WriteLockFree(s)
    /\ DeleteLink(s, id)

ConcNext ==
    \/ \E s \in Stores, name \in Names, path \in Paths, tags \in TagVals,
          icon \in Icons, now \in Times :
          AddLinkSelect(s, name, path, tags, icon, now)
    \/ \E s \in Stores : AddLinkInsert(s)
    \/ \E s \in Stores : AddLinkCommit(s)
    \/ \E s \in Stores, id \in Ids : ConcDeleteLink(s, id)

ConcSpec == ConcInit /\ [][ConcNext]_vars


\* ------------------------------------------------------------------------
\* FieldSpec: one read-write store on a file holding records whose four
\* editable fields have their first values; update_link is called with
\* every combination of supplied and omitted fields, the supplied values
\* all different from the first ones, and delete_link removes records.
FieldNames == {"b", "c"}
FieldPaths == {"q"}
FieldTags == {"u"}
FieldIcons == {"i"}

FieldArgs ==
    OptOf(FieldNames) \X OptOf(FieldPaths) \X OptOf(FieldTags)
        \X OptOf(FieldIcons)

FieldInit ==
    /\ file \in {Db2, Db3}
    /\ conn = [s \in Stores |-> IF s = "s1" THEN "open" ELSE "unopened"]
    /\ read_only = [s \in Stores |-> FALSE]
    /\ mode = [s \in Stores |-> IF s = "s1" THEN ConnMode(FALSE) ELSE "none"]
    /\ txn = [s \in Stores |-> NoTxn]
    /\ closes = [s \in Stores |-> 0]
    /\ block = [s \in Stores |-> NoBlock]
    /\ last = Constructed(file, "s1")
    /\ returned = {}
    /\ pc = [s \in Stores |-> "idle"]
    /\ pend = [s \in Stores |-> NoPend]
    /\ CallerInit

FieldNext ==
    \/ \E id \in Ids, a \in FieldArgs :
          UpdateLink("s1", id, a[1], a[2], a[3], a[4])
    \/ \E id \in Ids : DeleteLink("s1", id)

FieldSpec == FieldInit /\ [][FieldNext]_vars


\* ------------------------------------------------------------------------
\* SearchSpec: one read-write store on a new file whose caller adds records
\* under names of both letter cases, renames, deletes and reorders them,
\* and lists them with search strings that are empty, plain, padded with
\* whitespace, or made of the characters % and _.
SearchNames == {"ab", "B"}

Searches == {"", "a", "A", "b", "ab", "x", " ", " a", "a ", "%", "_"}

SearchLists == {ids \in IdLists : Len(ids) <= 1}

SearchNext ==
    \/ \E name \in SearchNames, path \in Paths, tags \in TagVals,
          icon \in Icons, now \in Times :
          AddLink("s1", name, path, tags, icon, now)
    \/ \E id \in Ids, name \in SearchNames :
          UpdateLink("s1", id, name, None, None, None)
    \/ \E id \in Ids : DeleteLink("s1", id)
    \/ \E ids \in SearchLists : Reorder("s1", ids)
    \/ \E search \in Searches : ListLinks("s1", search)

SearchSpec == Init /\ [][SearchNext]_vars


\* ------------------------------------------------------------------------
\* AtomSpec: two read-write stores open on the same file; the caller of s1
\* runs reorder, one statement per step, while the caller of s2 lists and
\* deletes records.  A list handed to reorder may hold an element of a type
\* sqlite3 cannot bind (a list, an object): the UPDATE given it raises
\* sqlite3.ProgrammingError.  Unbindable stands for such an element; it is
\* no id.
Unbindable == -1

AtomLists ==
    {ids \in SeqsUpTo(Ids \cup {Unbindable}, MaxLen) :
        /\ Len(ids) >= 1
        /\ \A j, k \in 1..Len(ids) : j # k => ids[j] # ids[k]}

DbThree == InsertRow(Db2, Rec(2))

AtomInit ==
    /\ file \in {Db2, DbThree}
    /\ conn = [s \in Stores |-> "open"]
    /\ read_only = [s \in Stores |-> FALSE]
    /\ mode = [s \in Stores |-> ConnMode(FALSE)]
    /\ txn = [s \in Stores |-> NoTxn]
    /\ closes = [s \in Stores |-> 0]
    /\ block = [s \in Stores |-> NoBlock]
    /\ last = Constructed(file, "s2")
    /\ returned = {}
    /\ pc = [s \in Stores |-> "idle"]
    /\ pend = [s \in Stores |-> NoPend]
    /\ CallerInit

\* reorder(ordered_ids) is called: `with self.transaction():` is entered
ReorderEnter(s, ids) ==
    /\ IsOpen(s)
    /\ pc[s] = "idle"
    /\ LET o == transaction_enter(file, txn[s], read_only[s])
       IN /\ o.result = "ok"
          /\ last' = Last("transaction_enter", s, 0, ids, o, "")
    /\ pend' = [pend EXCEPT ![s] = [NoPend EXCEPT !.ids = ids]]
    /\ pc' = [pc EXCEPT ![s] = "reorder"]
    /\ UNCHANGED <<caller, file, conn, read_only, mode, txn, closes, block, returned>>

\* the next pass of the loop: self.conn.execute("UPDATE links SET position
\* = ? WHERE id = ?;", (pos, id_)); the first one takes the write lock
ReorderUpdate(s) ==
    /\ pc[s] = "reorder"
    /\ pend[s].done < Len(pend[s].ids)
    /\ pend[s].ids[pend[s].done + 1] # Unbindable
    /\ WriteLockFree(s)
    /\ LET o == reorder_update(file, txn[s], pend[s].ids[pend[s].done + 1],
                               pend[s].done)
       IN /\ file' = o.file
          /\ txn' = [txn EXCEPT ![s] = o.txn]
    /\ pend' = [pend EXCEPT ![s] =
                  [@ EXCEPT !.done = @ + 1,
                            !.pre = IF pend[s].done = 0
                                    THEN View(file, txn[s]) ELSE @]]
    /\ UNCHANGED <<caller, conn, read_only, mode, closes, block, last, returned, pc>>

\* the next pass of the loop raises: the except clause of transaction()
\* rolls back and re-raises
ReorderRaise(s) ==
    /\ pc[s] = "reorder"
    /\ pend[s].done < Len(pend[s].ids)
    /\ pend[s].ids[pend[s].done + 1] = Unbindable
    /\ LET o == transaction_rollback(file, txn[s], IsOpen(s),
                                     "ProgrammingError")
       IN /\ file' = o.file
          /\ txn' = [txn EXCEPT ![s] = o.txn]
          /\ last' = Last("reorder", s, 0, pend[s].ids,
                          [o EXCEPT !.stmts = pend[s].done + 2], "")
    /\ pc' = [pc EXCEPT ![s] = "idle"]
    /\ pend' = [pend EXCEPT ![s] = NoPend]
    /\ UNCHANGED <<caller, conn, read_only, mode, closes, block, returned>>

\* the loop is over: transaction() commits
ReorderCommit(s) ==
    /\ pc[s] = "reorder"
    /\ pend[s].done = Len(pend[s].ids)
    /\ LET o == transaction_commit(file, txn[s], IsOpen(s))
       IN /\ file' = o.file
          /\ txn' = [txn EXCEPT ![s] = o.txn]
          /\ last' = Last("reorder", s, 0, pend[s].ids,
                          [o EXCEPT !.stmts = pend[s].done + 1], "")
    /\ pc' = [pc EXCEPT ![s] = "idle"]
    /\ pend' = [pend EXCEPT ![s] = NoPend]
    /\ UNCHANGED <<caller, conn, read_only, mode, closes, block, returned>>

AtomNext ==
    \/ \E ids \in AtomLists : ReorderEnter("s1", ids)
    \/ ReorderUpdate("s1")
    \/ ReorderRaise("s1")
    \/ ReorderCommit("s1")
    \/ ListLinks("s2", "")
    \/ \E id \in Ids : ConcDeleteLink("s2", id)

AtomSpec == AtomInit /\ [][AtomNext]_vars


\* ------------------------------------------------------------------------
\* OpenSpec: while one read-write store works on a file, a second store is
\* constructed on it, read-write or read-only, and any statement of its
\* constructor may raise sqlite3.Error; a store that was constructed lists
\* records and is closed.
\* failAt: the statement of __init__ that raises sqlite3.Error: the connect,
\* the first PRAGMA, the CREATE TABLE or the ALTER TABLE of the migration
InitSteps == {"none", "connect", "pragma", "schema", "migration"}

\* statements sent to the connection up to and including the failing one
InitStmts(failAt) ==
    CASE failAt = "connect" -> 0
      [] failAt = "pragma" -> 1
      [] failAt = "schema" -> 4
      [] failAt = "migration" -> 7
      [] OTHER -> 0

\* LinkDatabase(db_path, read_only): a read-only store runs no statement
\* after the connect.  pc = "raised": the constructor raised, its caller
\* holds no reference to the store.
ConstructLeaksConn(s, ro, failAt) ==
    /\ conn[s] = "unopened"
    /\ pc[s] = "idle"
    /\ ro => failAt \in {"none", "connect"}
    /\ read_only' = [read_only EXCEPT ![s] = ro]
    /\ txn' = [txn EXCEPT ![s] = NoTxn]
    /\ IF failAt = "none"
       THEN /\ conn' = [conn EXCEPT ![s] = "open"]
            /\ mode' = [mode EXCEPT ![s] = ConnMode(ro)]
            /\ last' = Constructed(file, s)
            /\ UNCHANGED <<closes, pc>>
       ELSE /\ conn' = [conn EXCEPT ![s] =
                          IF failAt = "connect" THEN "None" ELSE "open"]
            /\ mode' = [mode EXCEPT ![s] =
                          IF failAt = "connect" THEN "none" ELSE ConnMode(ro)]
            /\ UNCHANGED closes
            /\ pc' = [pc EXCEPT ![s] = "raised"]
            /\ last' = Last("__init__", s, 0, <<>>,
                            Outcome(file, NoTxn, "RuntimeError", 0, <<>>,
                                    InitStmts(failAt)), "sqlite3.Error")
    /\ UNCHANGED <<caller, file, block, returned, pend>>
Construct(s, ro, failAt) ==
    /\ conn[s] = "unopened"
    /\ pc[s] = "idle"
    /\ ro => failAt \in {"none", "connect"}
    /\ read_only' = [read_only EXCEPT ![s] = ro]
    /\ txn' = [txn EXCEPT ![s] = NoTxn]
    /\ IF failAt = "none"
       THEN /\ conn' = [conn EXCEPT ![s] = "open"]
            /\ mode' = [mode EXCEPT ![s] = ConnMode(ro)]
            /\ last' = Constructed(file, s)
            /\ UNCHANGED <<closes, pc>>
       ELSE /\ conn' = [conn EXCEPT ![s] = "None"]
            /\ mode' = [mode EXCEPT ![s] =
                          IF failAt = "connect" THEN "none" ELSE ConnMode(ro)]
            /\ closes' = [closes EXCEPT ![s] =
                            IF failAt = "connect" THEN @ ELSE @ + 1]
            /\ pc' = [pc EXCEPT ![s] = "raised"]
            /\ last' = Last("__init__", s, 0, <<>>,
                            Outcome(file, NoTxn, "RuntimeError", 0, <<>>,
                                    InitStmts(failAt)), "sqlite3.Error")
    /\ UNCHANGED <<caller, file, block, returned, pend>>

OpenInit ==
    /\ file \in PrePopulated
    /\ conn = [s \in Stores |-> IF s = "s1" THEN "open" ELSE "unopened"]
    /\ read_only = [s \in Stores |-> FALSE]
    /\ mode = [s \in Stores |-> IF s = "s1" THEN ConnMode(FALSE) ELSE "none"]
    /\ txn = [s \in Stores |-> NoTxn]
    /\ closes = [s \in Stores |-> 0]
    /\ block = [s \in Stores |-> NoBlock]
    /\ last = Constructed(file, "s1")
    /\ returned = {}
    /\ pc = [s \in Stores |-> "idle"]
    /\ pend = [s \in Stores |-> NoPend]
    /\ CallerInit

OpenNext ==
    \/ \E ro \in BOOLEAN, failAt \in InitSteps : Construct("s2", ro, failAt)
    \/ \E name \in Names, path \in Paths, tags \in TagVals,
          icon \in Icons, now \in Times :
          AddLink("s1", name, path, tags, icon, now)
    \/ \E id \in Ids : DeleteLink("s1", id)
    \/ \E s \in Stores : ListLinks(s, "")
    \/ \E s \in Stores, closeFails \in BOOLEAN : Close(s, closeFails)

OpenSpec == OpenInit /\ [][OpenNext]_vars


\* ------------------------------------------------------------------------
\* Properties

\* ------------------------------------------------------------------------
\* QuerySpec: one read-write store on a file of three records; its caller
\* holds one SearchQueryBuilder, calls add_filter with every field, every
\* operator name and two values, filter_by_tags in both modes and clear,
\* and hands the builder to search_links.
MaxFilters == 2  \* add_filter is called while the builder holds fewer

QueryValues == {"a", "b"}

TagLists == SeqsUpTo(QueryValues, MaxFilters)

\* set_order arguments: a column with a lower-case direction, a text that
\* is no column, a word that is no direction
OrderArgs == {<<"id", "desc">>, <<"position", "DESC">>,
              <<"position; DROP TABLE links", "asc">>,
              <<"position", "sideways">>}

QueryDb ==
    InsertRow(InsertRow(InsertRow(EmptyDb,
        NewRecord("ab", "b", "a", 0, "t0", "")),
        NewRecord("ba", "a", "ab", 1, "t0", "")),
        NewRecord("B", "ab", None, 2, "t0", ""))

QueryInit ==
    /\ file = QueryDb
    /\ conn = [s \in Stores |-> IF s = "s1" THEN "open" ELSE "unopened"]
    /\ read_only = [s \in Stores |-> FALSE]
    /\ mode = [s \in Stores |-> IF s = "s1" THEN ConnMode(FALSE) ELSE "none"]
    /\ txn = [s \in Stores |-> NoTxn]
    /\ closes = [s \in Stores |-> 0]
    /\ block = [s \in Stores |-> NoBlock]
    /\ last = Constructed(QueryDb, "s1")
    /\ returned = {}
    /\ pc = [s \in Stores |-> "idle"]
    /\ pend = [s \in Stores |-> NoPend]
    /\ CallerInit

\* a method of the builder returned; it touches no store
BuilderCall(op, args, b) ==
    /\ builder' = b
    /\ last' = [Last(op, "", 0, <<>>, Outcome(file, NoTxn, "ok", 0, <<>>, 0), "")
                   EXCEPT !.args = args]
    /\ UNCHANGED <<file, conn, read_only, mode, txn, closes, block, returned,
                   pc, pend, jsonfile, shown>>

\* builder.add_filter(field, value, SearchOperator.<operator>)
AddFilter(field, value, operator) ==
    /\ Len(builder.filters) < MaxFilters
    /\ BuilderCall("add_filter", <<field, value, operator>>,
                   add_filter(builder, field, Chars(value),
                              SearchOperator(operator), FALSE))

FilterByTags(tags, match_mode) ==
    /\ Len(builder.filters) + Len(tags) <= MaxFilters
    /\ BuilderCall("filter_by_tags", <<match_mode>> \o tags,
                   filter_by_tags(builder,
                                  [i \in 1..Len(tags) |-> Chars(tags[i])],
                                  match_mode))

SetOrder(field, direction) ==
    /\ BuilderCall("set_order", <<field, direction>>,
                   set_order(builder, field, direction))

Clear ==
    /\ BuilderCall("clear", <<>>, clear(builder))

SearchLinks(s) ==
    /\ conn[s] # "unopened"
    /\ pc[s] = "idle"
    /\ \E order \in IF Prepares(build(builder))
                    THEN Fetchall(View(file, txn[s]).rows, build(builder))
                    ELSE {<<>>} :
          Call(s, "search_links", 0, <<>>,
               search_links(file, txn[s], IsOpen(s), builder, order))

QueryNext ==
    \/ \E field \in SearchField, value \in QueryValues,
          k \in 1..Len(OperatorNames) :
          AddFilter(field, value, OperatorNames[k])
    \/ \E tags \in TagLists, match_mode \in {"OR", "AND"} :
          FilterByTags(tags, match_mode)
    \/ Clear
    \/ SearchLinks("s1")

QuerySpec == QueryInit /\ [][QueryNext]_vars

\* ------------------------------------------------------------------------
\* OrderSpec: the same store; the caller sets the order of the builder,
\* adds filters through simple_search, clears them and searches.
OrderQueries == {"", "a", " b", "ab"}

SimpleSearch(query) ==
    /\ Len(builder.filters) < MaxFilters
    /\ BuilderCall("simple_search", <<query>>, simple_search(builder, query))

OrderNext ==
    \/ \E a \in OrderArgs : SetOrder(a[1], a[2])
    \/ \E query \in OrderQueries : SimpleSearch(query)
    \/ Clear
    \/ SearchLinks("s1")

OrderSpec == QueryInit /\ [][OrderNext]_vars


\* ------------------------------------------------------------------------
\* ManagerSpec: a LinkManager on a file that holds no record or two, the
\* two in the order of their ids, in the opposite order, or at the same
\* position.  Its caller exports, deletes records and imports; another
\* program writes import files whose items are objects with and without a
\* path, values that are no object, and objects whose name, path or tags
\* is null or an array.
MaxImported == MaxId + 1   \* import_links runs while no id exceeds it

ManagerStores ==
    LET db == InsertRow(InsertRow(EmptyDb,
                  NewRecord("a", "p", "t", 0, "t0", "")),
                  NewRecord("", "q", "", 1, "t0", ""))
    IN {EmptyDb, db, ReorderUpdates(db, <<2, 1>>, 0),
        ReorderUpdates(db, <<2>>, 0)}

ImportLists ==
    {<<>>,
     <<JsonObject(Missing, "p", Missing), JsonObject("a", Missing, "t")>>,
     <<JsonObject("a", "p", "t"), JsonOther>>,
     <<JsonObject(Missing, Missing, Missing), JsonObject("a", "p", "t")>>,
     <<JsonObject("a", None, "t"), JsonObject("a", "p", "t")>>,
     <<JsonObject(None, "p", "t")>>,
     <<JsonObject("a", "p", None), JsonObject("a", JsonArray, "t")>>,
     <<JsonObject("a", "p", JsonArray), JsonObject(Missing, "p", Missing)>>}

ImportFiles ==
    {[version |-> "1.0", links |-> links, by |-> "other", records |-> <<>>] :
        links \in ImportLists}
    \cup {[version |-> "2.0", links |-> <<JsonObject("a", "p", "t")>>,
           by |-> "other", records |-> <<>>]}

ManagerInit ==
    /\ file \in ManagerStores
    /\ conn = [s \in Stores |-> IF s = "s1" THEN "open" ELSE "unopened"]
    /\ read_only = [s \in Stores |-> FALSE]
    /\ mode = [s \in Stores |-> IF s = "s1" THEN ConnMode(FALSE) ELSE "none"]
    /\ txn = [s \in Stores |-> NoTxn]
    /\ closes = [s \in Stores |-> 0]
    /\ block = [s \in Stores |-> NoBlock]
    /\ last = Constructed(file, "s1")
    /\ returned = {}
    /\ pc = [s \in Stores |-> "idle"]
    /\ pend = [s \in Stores |-> NoPend]
    /\ CallerInit

\* another program writes the file import_links will be given
WriteJson(data) ==
    /\ jsonfile' = data
    /\ UNCHANGED <<file, conn, read_only, mode, txn, closes, block, last,
                   returned, pc, pend, builder, shown>>

\* manager.export_links(file_path)
ExportLinks(s) ==
    /\ conn[s] # "unopened"
    /\ pc[s] = "idle"
    /\ \E order \in
            Fetchall(View(file, txn[s]).rows,
                     build(simple_search(SearchQueryBuilder, ""))) :
          LET o == list_links(file, txn[s], IsOpen(s), order)
          IN /\ CompletedStore(s, Last("export_links", s, 0, <<>>, o, ""), o)
             /\ jsonfile' = IF o.result = "ok"
                            THEN export_links(View(file, txn[s]).rows, order)
                            ELSE jsonfile
    /\ UNCHANGED <<builder, shown>>

\* manager.import_links(file_path)
ImportLinks(s, now) ==
    /\ conn[s] # "unopened"
    /\ pc[s] = "idle"
    /\ jsonfile.version # ""
    /\ LET o == import_links(file, txn[s], IsOpen(s), read_only[s], mode[s],
                             jsonfile, now)
       IN /\ o.file.seq <= MaxImported
          /\ Call(s, "import_links", 0, <<>>, o)

ManagerNext ==
    \/ \E data \in ImportFiles : WriteJson(data)
    \/ ExportLinks("s1")
    \/ \E now \in Times : ImportLinks("s1", now)
    \/ \E id \in Ids : DeleteLink("s1", id)

ManagerSpec == ManagerInit /\ [][ManagerNext]_vars


\* ------------------------------------------------------------------------
\* DisplaySpec: LinkRecords are made of names that are empty or not, paths
\* with and without separators, a trailing separator or a drive letter,
\* tags that are None, empty or not, and display_text() is called on them
\* where os.path is posixpath and where it is ntpath.
DisplayNames == {"", "a", "ab"}

DisplayPaths == {"p", "d/f", "d/", "d\\f", "C:", "C:\\"}

DisplayTags == {None, "", "t"}

Platforms == {"posix", "nt"}

\* LinkRecord(id_, name, path, tags, position, added_at).display_text()
DisplayText(name, path, tags, os) ==
    /\ shown' = [name |-> name, path |-> path, tags |-> tags, os |-> os,
                 text |-> display_text(
                    LinkRecord(NewRecord(name, path, tags, 0, "t0", "")), os)]
    /\ UNCHANGED <<file, conn, read_only, mode, txn, closes, block, last,
                   returned, pc, pend, builder, jsonfile>>

DisplayNext ==
    \E name \in DisplayNames, path \in DisplayPaths, tags \in DisplayTags,
       os \in Platforms :
       DisplayText(name, path, tags, os)

DisplaySpec == Init /\ [][DisplayNext]_vars


\* ids is a duplicate-free list of exactly the ids stored in rows
IsFullOrder(ids, rows) ==
    /\ Len(ids) = Cardinality(DOMAIN rows)
    /\ {ids[k] : k \in 1..Len(ids)} = DOMAIN rows

\* C1 (LifeSpec): when a transaction() block in which at least two add_link
\* calls returned is left by the constraint failure of a later add_link,
\* none of the records added inside the block is stored.
TransactionRollsBackAdds ==
    \A s \in Stores :
        (/\ last.op = "transaction_rollback"
         /\ last.s = s
         /\ block[s].adds >= 2
         /\ block[s].exc = "IntegrityError")
        => \A i \in DOMAIN file.rows : i <= block[s].startSeq

\* C2 (ConcSpec): records added by add_link calls that overlap in time never
\* end up with the same position.
ConcurrentAddsDistinctPositions ==
    \A i, j \in DOMAIN file.rows :
        i # j => file.rows[i].position # file.rows[j].position

\* C3 as stated (Spec): right after every reorder call, whatever list of
\* ids it was given, the positions of the stored records are exactly
\* 0 .. N-1.
DenseAfterAnyReorder ==
    (last.op = "reorder" /\ last.result = "ok")
    => Positions(file.rows) = 0..(Cardinality(DOMAIN file.rows) - 1)

\* C3 amended (Spec): right after a reorder call given a duplicate-free
\* list of exactly the stored ids, the positions of the stored records are
\* exactly 0 .. N-1, no two records sharing one.
DenseAfterFullReorder ==
    (last.op = "reorder" /\ last.result = "ok"
     /\ IsFullOrder(last.ids, file.rows))
    => /\ Positions(file.rows) = 0..(Cardinality(DOMAIN file.rows) - 1)
       /\ \A i, j \in DOMAIN file.rows :
             i # j => file.rows[i].position # file.rows[j].position

\* a full reorder of two or more records in a table deletes left gaps in
DenseAfterFullReorderWitness ==
    /\ last.op = "reorder" /\ last.result = "ok"
    /\ IsFullOrder(last.ids, file.rows)
    /\ Len(last.ids) >= 2
    /\ file.seq > Cardinality(DOMAIN file.rows)

\* C4 (Spec): right after reorder(ordered_ids) with a duplicate-free list of
\* exactly the stored ids, every record's position is the index of its id
\* in the list, and the list is the only order list_links("") can return.
ReorderAssignsIndex ==
    (last.op = "reorder" /\ last.result = "ok"
     /\ IsFullOrder(last.ids, file.rows))
    => /\ \A k \in 1..Len(last.ids) :
             file.rows[last.ids[k]].position = k - 1
       /\ PositionOrders(View(file, txn[last.s]).rows) = {last.ids}

\* a full reorder that moves a later-added record before an earlier one
ReorderAssignsIndexWitness ==
    /\ last.op = "reorder" /\ last.result = "ok"
    /\ IsFullOrder(last.ids, file.rows)
    /\ Len(last.ids) >= 2
    /\ last.ids[1] > last.ids[2]

\* C5 (LifeSpec): no call made on a read-only store changes the stored
\* data.
ReadOnlyNeverWrites ==
    [][\A s \in Stores : (read_only[s] /\ last'.s = s) => file' = file]_vars

\* delete_link of a stored record was called on a read-only store
ReadOnlyNeverWritesWitness ==
    /\ read_only[last.s]
    /\ last.op = "delete_link"
    /\ last.id \in DOMAIN file.rows

\* C6 (LifeSpec): on an open read-only store, transaction(), add_link,
\* update_link, delete_link and reorder are each rejected by the store with
\* its read-only error before any statement reaches the connection.
ReadOnlyRejectedByStore ==
    \A s \in Stores :
        (/\ read_only[s] /\ IsOpen(s)
         /\ last.s = s
         /\ last.op \in WriteOps \cup {"transaction_enter"})
        => (last.result = "RuntimeError" /\ last.stmts = 0)

\* C7 (LifeSpec): no call made on a store after close() returns normally.
ClosedStoreCallsFail ==
    \A s \in Stores :
        (/\ conn[s] = "None"
         /\ last.s = s
         /\ last.op \in WriteOps \cup {"list_links", "get_link_by_id",
                                       "transaction_enter"})
        => last.result # "ok"

\* C8 (LifeSpec): close() never raises and leaves the store without a
\* connection; the connection of a closed store was closed exactly once,
\* that of an open store never.
CloseIdempotent ==
    \A s \in Stores :
        /\ (last.op = "close" /\ last.s = s)
              => (last.result = "ok" /\ conn[s] = "None")
        /\ conn[s] = "None" => closes[s] = 1
        /\ conn[s] = "open" => closes[s] = 0

\* close() was called on a store already closed
CloseIdempotentWitness ==
    /\ last.op = "close"
    /\ last.stmts = 0
    /\ conn[last.s] = "None"
    /\ closes[last.s] = 1

\* C9 (Spec): a successful add_link adds one record whose position is the
\* largest position stored before the call plus one, 0 on an empty table,
\* and leaves every existing record as it was.
AddLinkAppends ==
    [][(last'.op = "add_link" /\ last'.result = "ok")
       => LET old == file.rows
              new == file'.rows
              id == last'.ret
          IN /\ id \notin DOMAIN old
             /\ DOMAIN new = DOMAIN old \cup {id}
             /\ \A i \in DOMAIN old : new[i] = old[i]
             /\ IF DOMAIN old = {} THEN new[id].position = 0
                ELSE /\ \E i \in DOMAIN old :
                           new[id].position = old[i].position + 1
                     /\ \A i \in DOMAIN old :
                           old[i].position < new[id].position]_vars

\* add_link on a table whose positions have gaps
AddLinkAppendsWitness ==
    /\ last.op = "add_link" /\ last.result = "ok"
    /\ file.rows[last.ret].position >= Cardinality(DOMAIN file.rows)

\* C10 (Spec): the id a successful add_link returns is larger than every id
\* an earlier add_link returned.
IdsIncrease ==
    [][(last'.op = "add_link" /\ last'.result = "ok")
       => \A i \in returned : i < last'.ret]_vars

\* add_link after the record with the highest id was deleted
IdsIncreaseWitness ==
    /\ last.op = "add_link" /\ last.result = "ok"
    /\ (last.ret - 1) \in returned
    /\ (last.ret - 1) \notin DOMAIN file.rows

\* C11 (FieldSpec): update_link(id, ...) sets each supplied field of the
\* record with that id to the supplied value and changes nothing else: the
\* record's omitted fields, its position and added_at, the set of stored
\* ids and every other record stay as they were; with no field supplied
\* the file and the connection are left as they were.
UpdateLinkFrame ==
    [][\A a \in FieldArgs :
          (/\ last'.op = "update_link"
           /\ UpdateLink("s1", last'.id, a[1], a[2], a[3], a[4]))
          => LET old == file.rows
                 new == file'.rows
                 id == last'.id
             IN /\ DOMAIN new = DOMAIN old
                /\ file'.seq = file.seq
                /\ \A i \in DOMAIN old \ {id} : new[i] = old[i]
                /\ id \in DOMAIN old =>
                     /\ new[id].name =
                           IF a[1] = None THEN old[id].name ELSE a[1]
                     /\ new[id].path =
                           IF a[2] = None THEN old[id].path ELSE a[2]
                     /\ new[id].tags =
                           IF a[3] = None THEN old[id].tags ELSE a[3]
                     /\ new[id].custom_icon =
                           IF a[4] = None THEN old[id].custom_icon ELSE a[4]
                     /\ new[id].position = old[id].position
                     /\ new[id].added_at = old[id].added_at
                /\ a = <<None, None, None, None>>
                     => (file' = file /\ txn' = txn)]_vars

\* update_link changed the name of one of two stored records and was given
\* no path: the path is the first one, the other record has its first name
UpdateLinkFrameWitness ==
    /\ last.op = "update_link" /\ last.result = "ok" /\ last.stmts = 2
    /\ last.id \in DOMAIN file.rows
    /\ file.rows[last.id].name \in FieldNames
    /\ file.rows[last.id].path \in Paths
    /\ \E j \in DOMAIN file.rows \ {last.id} : file.rows[j].name \in Names

\* C12 (Spec): update_link and delete_link called with an id that is not
\* stored, on an empty table too, return normally and leave the stored data
\* as it was.
MissingIdIsNoOp ==
    [][(/\ last'.op \in {"update_link", "delete_link"}
        /\ last'.id \notin DOMAIN file.rows)
       => (last'.result = "ok" /\ file' = file)]_vars

\* update_link with fields supplied ran its UPDATE for an id that is not
\* among the stored ones
MissingIdIsNoOpWitness ==
    /\ last.op = "update_link" /\ last.stmts = 2
    /\ last.id \notin DOMAIN file.rows
    /\ DOMAIN file.rows # {}

\* C13 (Spec): delete_link(id) removes the record with that id and no
\* other, and leaves every remaining record, its position included, as it
\* was: positions are not renumbered and the remaining records are listed
\* in the order they had.
DeleteLinkFrame ==
    [][(last'.op = "delete_link" /\ last'.result = "ok")
       => LET old == file.rows
              new == file'.rows
          IN /\ DOMAIN new = DOMAIN old \ {last'.id}
             /\ \A i \in DOMAIN new : new[i] = old[i]
             /\ \A i, j \in DOMAIN new :
                   (old[i].position < old[j].position)
                   <=> (new[i].position < new[j].position)]_vars

\* delete_link removed a record from between two others: the positions
\* left have a gap
DeleteLinkFrameWitness ==
    /\ last.op = "delete_link" /\ last.result = "ok"
    /\ last.id \notin DOMAIN file.rows
    /\ \E i, j \in DOMAIN file.rows :
          /\ i < last.id /\ last.id < j
          /\ file.rows[j].position - file.rows[i].position = 2
    /\ Positions(file.rows) # 0..(Cardinality(DOMAIN file.rows) - 1)

\* q holds each of its ids once
IsDuplicateFree(q) == \A j, k \in 1..Len(q) : j # k => q[j] # q[k]

\* C14 (SearchSpec): list_links, whatever the search string, returns stored
\* records only, none of them twice, in ascending order of the positions
\* the writes completed before it left; list_links("") returns every stored
\* record.
ListLinksSortedAndComplete ==
    (last.op = "list_links" /\ IsOpen(last.s))
    => LET q == last.out
           rows == file.rows
       IN /\ last.result = "ok"
          /\ IsDuplicateFree(q)
          /\ \A k \in 1..Len(q) : q[k] \in DOMAIN rows
          /\ \A j, k \in 1..Len(q) :
                j < k => rows[q[j]].position <= rows[q[k]].position
          /\ last.search = "" => {q[k] : k \in 1..Len(q)} = DOMAIN rows

\* list_links returned some but not all of the stored records, and returned
\* a later-added record before an earlier one
ListLinksSortedAndCompleteWitness ==
    /\ last.op = "list_links" /\ last.result = "ok"
    /\ Len(last.out) >= 2
    /\ Len(last.out) < Cardinality(DOMAIN file.rows)
    /\ last.out[1] > last.out[2]
    /\ file.rows[last.out[1]].position < file.rows[last.out[2]].position

\* x occurs in txt as a run of consecutive characters, letter case ignored
ContainsIgnoreCase(x, txt) ==
    \E k \in 0..(Len(txt) - Len(x)) :
        \A j \in 1..Len(x) : Lower(txt[k + j]) = Lower(x[j])

\* C15 (SearchSpec): list_links(x) returns exactly the stored records whose
\* name, path or tags contain the string x itself, letter case ignored,
\* also when x starts or ends with whitespace or holds % or _.
ListLinksLiteralSubstring ==
    (last.op = "list_links" /\ IsOpen(last.s))
    => {last.out[k] : k \in 1..Len(last.out)}
       = {i \in DOMAIN file.rows :
             \E col \in {file.rows[i].name, file.rows[i].path,
                          file.rows[i].tags} :
                col # None
                /\ ContainsIgnoreCase(Chars(last.search), Chars(col))}

\* C16 (LifeSpec): on an open store get_link_by_id(id) never raises: it
\* returns the record with that id when one is stored and None (ret = 0)
\* when none is.
GetLinkByIdReturnsRecord ==
    \A s \in Stores :
        (/\ last.op = "get_link_by_id"
         /\ last.s = s
         /\ IsOpen(s))
        => /\ last.result = "ok"
           /\ last.ret = IF last.id \in DOMAIN View(file, txn[s]).rows
                         THEN last.id ELSE 0

\* C17 (AtomSpec): when a reorder call ends before all its UPDATEs ran,
\* some of them having run, the call raises and every stored record is as
\* the call found it, in the file and in what the store reads next.
ReorderFailureRestores ==
    [][\A s \in Stores :
          (/\ pc[s] = "reorder" /\ pc'[s] = "idle"
           /\ pend[s].done >= 1
           /\ pend[s].done < Len(pend[s].ids))
          => /\ last'.op = "reorder" /\ last'.s = s
             /\ last'.result # "ok"
             /\ file'.rows = pend[s].pre.rows
             /\ View(file', txn'[s]).rows = pend[s].pre.rows]_vars

\* reorder raised at its third element after two UPDATEs; the record its
\* first UPDATE had moved to position 0 is stored with another position
ReorderFailureRestoresWitness ==
    /\ last.op = "reorder" /\ last.result = "ProgrammingError"
    /\ Len(last.ids) >= 3 /\ last.ids[3] = Unbindable
    /\ last.ids[1] \in DOMAIN file.rows
    /\ file.rows[last.ids[1]].position # 0

\* C18 (AtomSpec): while one store is inside reorder, the table a
\* list_links of the other store reads is the one the reorder found or the
\* one with all its updates, never one with some of them.
ReorderSeenWholeOrNot ==
    \A s, t \in Stores :
        (/\ s # t
         /\ pc[s] = "reorder" /\ pend[s].done >= 1
         /\ last.op = "list_links" /\ last.s = t /\ last.result = "ok")
        => LET seen == View(file, txn[t]).rows
               ids == pend[s].ids
           IN /\ \/ seen = pend[s].pre.rows
                 \/ /\ \A k \in 1..Len(ids) : ids[k] # Unbindable
                    /\ seen = ReorderUpdates(pend[s].pre, ids, 0).rows
              /\ Len(last.out) = Cardinality(DOMAIN seen)
              /\ \A k \in 1..Len(last.out) : last.out[k] \in DOMAIN seen
              /\ \A j, k \in 1..Len(last.out) :
                    j < k => seen[last.out[j]].position
                                <= seen[last.out[k]].position

\* the other store listed the records while a reorder had run some of its
\* UPDATEs, one of which changed a position
ReorderSeenWholeOrNotWitness ==
    /\ last.op = "list_links" /\ last.s = "s2" /\ last.result = "ok"
    /\ pc["s1"] = "reorder"
    /\ pend["s1"].done >= 1 /\ pend["s1"].done < Len(pend["s1"].ids)
    /\ txn["s1"].txn /\ txn["s1"].work.rows # file.rows
    /\ Len(last.out) >= 2

\* C19 (LifeSpec): every exit from a transaction() block runs exactly one of
\* commit and rollback (stmts counts the two): a block left normally ends
\* with the commit alone and nothing raised, a block left by an exception
\* ends with the rollback alone.
TransactionExitsOnce ==
    /\ last.op = "transaction_commit"
          => (last.stmts = 1 /\ last.result = "ok")
    /\ last.op \in {"transaction_rollback", "transaction_interrupt"}
          => (last.stmts = 1 /\ last.result # "ok")

\* C20 (OpenSpec): a store whose constructor raised holds no connection,
\* and the connection it had opened, if it got that far, was closed once;
\* the caller is given RuntimeError.  No store that is not usable holds an
\* open connection.
FailedInitLeavesNoConnection ==
    \A s \in Stores :
        /\ pc[s] = "raised"
              => /\ conn[s] = "None"
                 /\ closes[s] = IF mode[s] = "none" THEN 0 ELSE 1
        /\ (last.op = "__init__" /\ last.s = s /\ last.result # "ok")
              => (pc[s] = "raised" /\ last.result = "RuntimeError")

\* the constructor of a read-write store raised in the column migration,
\* after the connect, the pragmas and the CREATE TABLE
FailedInitLeavesNoConnectionWitness ==
    /\ last.op = "__init__" /\ last.result = "RuntimeError"
    /\ last.stmts = InitStmts("migration")
    /\ mode[last.s] = "rwc"
    /\ closes[last.s] = 1

\* the text txt begins / ends with the text x, letter case ignored
BeginsWith(x, txt) ==
    /\ Len(x) <= Len(txt)
    /\ \A j \in 1..Len(x) : Lower(txt[j]) = Lower(x[j])

EndsWith(x, txt) ==
    /\ Len(x) <= Len(txt)
    /\ \A j \in 1..Len(x) : Lower(txt[Len(txt) - Len(x) + j]) = Lower(x[j])

\* C21 (QuerySpec): a builder holding one filter binds, for every field the
\* filter names, value% under STARTS_WITH, %value under ENDS_WITH, %value%
\* under CONTAINS and the value itself under EQUALS, and selects exactly
\* the records with a named field that begins with, ends with, contains or
\* equals the value.
OperatorsHaveTheirOwnRule ==
    (last.op = "add_filter" /\ Len(builder.filters) = 1)
    => LET field == last.args[1]
           value == Chars(last.args[2])
           operator == last.args[3]
           columns(rec) == IF field = "all"
                           THEN {rec.name, rec.path, rec.tags}
                           ELSE {rec[field]}
           bound == CASE operator = "STARTS_WITH" -> value \o <<"%">>
                      [] operator = "ENDS_WITH" -> <<"%">> \o value
                      [] operator = "CONTAINS" -> <<"%">> \o value \o <<"%">>
                      [] operator = "EQUALS" -> value
           matches(txt) ==
               CASE operator = "STARTS_WITH" -> BeginsWith(value, txt)
                 [] operator = "ENDS_WITH" -> EndsWith(value, txt)
                 [] operator = "CONTAINS" -> ContainsIgnoreCase(value, txt)
                 [] operator = "EQUALS" -> txt = value
       IN /\ \A k \in 1..Len(build(builder).params) :
                build(builder).params[k] = bound
          /\ DOMAIN Selected(file.rows, build(builder))
             = {i \in DOMAIN file.rows :
                   \E col \in columns(file.rows[i]) :
                      col # None /\ matches(Chars(col))}

\* the record satisfies the filter: a field the filter names (every text
\* field under "all") holds a text that contains the value, letter case
\* ignored, or, under EQUALS, is the value
Satisfies(f, rec) ==
    \E col \in (IF f.field = "all" THEN {rec.name, rec.path, rec.tags}
                ELSE {rec[f.field]}) :
       /\ col # None
       /\ IF f.operator = "EQUALS" THEN Chars(col) = f.value
          ELSE ContainsIgnoreCase(f.value, Chars(col))

\* C22 (QuerySpec): search_links(builder) returns exactly the stored
\* records that satisfy every filter the builder holds; a filter on all
\* fields is satisfied through any of name, path and tags, a filter on one
\* field through that field only, whatever filters stand next to it.
SearchLinksAndsTheFilters ==
    (last.op = "search_links" /\ last.result = "ok")
    => {last.out[k] : k \in 1..Len(last.out)}
       = {i \in DOMAIN file.rows :
             \A k \in 1..Len(builder.filters) :
                Satisfies(builder.filters[k], file.rows[i])}

\* an all-fields filter and a one-field filter were searched together, and
\* a record that satisfies the first and not the second was left out
SearchLinksAndsTheFiltersWitness ==
    /\ last.op = "search_links" /\ last.result = "ok"
    /\ Len(builder.filters) = 2
    /\ builder.filters[1].field = "all"
    /\ builder.filters[2].field = "tags"
    /\ last.out # <<>>
    /\ \E i \in DOMAIN file.rows :
          /\ \A k \in 1..Len(last.out) : last.out[k] # i
          /\ Satisfies(builder.filters[1], file.rows[i])
          /\ ~Satisfies(builder.filters[2], file.rows[i])

\* the columns a query on links can be ordered by
SortableFields == {"id", "name", "path", "tags", "position", "added_at"}

\* C23 (OrderSpec): whatever calls the builder has received, the query
\* build() returns orders by a field of the allow-list, in direction ASC or
\* DESC.
OrderByFromAllowList ==
    LET query == build(builder).query
    IN /\ query[Len(query) - 3] = "ORDER BY"
       /\ query[Len(query) - 2] \in SortableFields
       /\ query[Len(query) - 1] \in {"ASC", "DESC"}

\* the builder with the value of its j-th filter replaced
WithValue(b, j, value) == [b EXCEPT !.filters[j].value = value]

\* the filter whose condition holds the k-th placeholder: a filter on all
\* fields holds three, every other filter one
RECURSIVE PlaceholderOwner(_, _, _)
PlaceholderOwner(filters, j, k) ==
    LET n == IF filters[j].field = "all" THEN 3 ELSE 1
    IN IF k <= n THEN j ELSE PlaceholderOwner(filters, j + 1, k - n)

OtherValues == {<<"a">>, <<"x">>, <<"'", ";">>}

\* C24 (QuerySpec): the query text build() returns is the same whatever
\* the values of the filters are; the parameter list holds one parameter
\* for every ? of the text, and the k-th parameter carries the value of the
\* filter whose condition holds the k-th ?.
QueryTextIgnoresValues ==
    LET q == build(builder)
        marks == {t \in 1..Len(q.query) : q.query[t] = "?"}
    IN /\ Cardinality(marks) = Len(q.params)
       /\ \A j \in 1..Len(builder.filters), value \in OtherValues :
             LET q2 == build(WithValue(builder, j, value))
             IN /\ q2.query = q.query
                /\ Len(q2.params) = Len(q.params)
                /\ value # builder.filters[j].value
                   => \A k \in 1..Len(q.params) :
                         (q2.params[k] # q.params[k])
                         <=> (PlaceholderOwner(builder.filters, 1, k) = j)

\* the builder holds a filter on all fields and a filter on one field with
\* different values: four placeholders, four parameters
QueryTextIgnoresValuesWitness ==
    /\ Len(builder.filters) = 2
    /\ builder.filters[1].field = "all"
    /\ builder.filters[2].field # "all"
    /\ builder.filters[1].value # builder.filters[2].value
    /\ Len(build(builder).params) = 4
    /\ last.op = "search_links" /\ last.result = "ok"

\* the tags of the record contain the tag, letter case ignored
HasTag(rec, tag) ==
    rec.tags # None /\ ContainsIgnoreCase(Chars(tag), Chars(rec.tags))

FilterByTagsOrMatchesAny ==
    [][(/\ last'.op = "filter_by_tags"
        /\ last'.args[1] = "OR"
        /\ Len(last'.args) > 1
        /\ builder.filters = <<>>)
       => DOMAIN Selected(file.rows, build(builder'))
          = {i \in DOMAIN file.rows :
                \E k \in 2..Len(last'.args) :
                   HasTag(file.rows[i], last'.args[k])}]_vars

\* the items of the list that are objects holding a path; with strict,
\* only those whose name and path are neither null nor an array and whose
\* tags are no array
RECURSIVE ItemsWithPath(_, _)
ItemsWithPath(links, strict) ==
    IF links = <<>> THEN <<>>
    ELSE LET link == Head(links)
             takes == /\ link.kind = "object"
                      /\ link.path # Missing
                      /\ strict => /\ link.name \notin {None, JsonArray}
                                   /\ link.path \notin {None, JsonArray}
                                   /\ link.tags # JsonArray
         IN (IF takes THEN <<link>> ELSE <<>>)
            \o ItemsWithPath(Tail(links), strict)

\* the k-th smallest id of the set
KthId(S, k) == CHOOSE i \in S : Cardinality({j \in S : j < i}) = k - 1

\* the step (an import_links call: the file it read is as it was) added
\* one record per item of good, in the order of the list
\* and at positions above every record stored before, changed no record
\* stored before, and returned the number of items of good
ImportAdded(good) ==
    LET new == DOMAIN file'.rows \ DOMAIN file.rows
    IN /\ last'.result = "ok"
       /\ last'.ret = Len(good)
       /\ Cardinality(DOMAIN file'.rows)
          = Cardinality(DOMAIN file.rows) + last'.ret
       /\ \A i \in DOMAIN file.rows :
             i \in DOMAIN file'.rows /\ file'.rows[i] = file.rows[i]
       /\ \A k \in 1..Len(good) :
             LET rec == file'.rows[KthId(new, k)]
             IN /\ rec.name = (IF good[k].name = Missing THEN ""
                               ELSE good[k].name)
                /\ rec.path = good[k].path
                /\ rec.tags = (IF good[k].tags = Missing THEN ""
                               ELSE good[k].tags)
                /\ \A i \in DOMAIN file.rows :
                      file.rows[i].position < rec.position
                /\ k > 1 => file'.rows[KthId(new, k - 1)].position
                            < rec.position

\* C27 (ManagerSpec), as claimed: import_links on a file of version 1.0
\* adds exactly the items of the list that are objects holding a path, in
\* the order of the file and after the records stored before, skips the
\* others, and returns the number added, the growth of the record count.
ImportAddsItemsWithPath ==
    [][(/\ last'.op = "import_links"
        /\ jsonfile' = jsonfile
        /\ jsonfile.version = "1.0")
       => ImportAdded(ItemsWithPath(jsonfile.links, FALSE))]_vars

\* C27 (ManagerSpec), amended: ... adds exactly the items that are objects
\* holding a path whose name and path are neither null nor an array or
\* object and whose tags are no array or object ...
ImportAddsStorableItemsWithPath ==
    [][(/\ last'.op = "import_links"
        /\ jsonfile' = jsonfile
        /\ jsonfile.version = "1.0")
       => ImportAdded(ItemsWithPath(jsonfile.links, TRUE))]_vars

\* a file whose first item has a null path and whose second item is well
\* formed was imported into a store that held records: one record added
ImportAddsStorableItemsWithPathWitness ==
    /\ last.op = "import_links" /\ last.result = "ok"
    /\ last.ret = 1
    /\ jsonfile.links = <<JsonObject("a", None, "t"), JsonObject("a", "p", "t")>>
    /\ Cardinality(DOMAIN file.rows) = 3
    /\ file.seq = 3
    /\ file.rows[3].position = 2

\* C28 (ManagerSpec): when import_links reads the file export_links wrote
\* into a store that holds no record, list_links("") returns as many
\* records as the export read, with the same name, path and tags in the
\* same order, empty names and empty tags included.
ExportImportRoundTrips ==
    [][(/\ last'.op = "import_links"
        /\ jsonfile' = jsonfile
        /\ jsonfile.by = "export_links"
        /\ DOMAIN file.rows = {})
       => \A order \in PositionOrders(file'.rows) :
             [k \in 1..Len(order) |->
                 [name |-> file'.rows[order[k]].name,
                  path |-> file'.rows[order[k]].path,
                  tags |-> IF file'.rows[order[k]].tags = None THEN ""
                           ELSE file'.rows[order[k]].tags]]
             = jsonfile.records]_vars

\* the two records, the one with the empty name and the empty tags listed
\* first, were exported, deleted and imported again under new ids
ExportImportRoundTripsWitness ==
    /\ last.op = "import_links" /\ last.ret = 2
    /\ jsonfile.by = "export_links"
    /\ Len(jsonfile.records) = 2
    /\ jsonfile.records[1].name = "" /\ jsonfile.records[1].tags = ""
    /\ jsonfile.records[2].name = "a"
    /\ DOMAIN file.rows = {3, 4}
    /\ file.rows[3].name = ""

\* seg is the final segment of the path: the longest end of it, the drive
\* letter and colon of a Windows path left aside, that holds no separator
IsFinalSegment(seg, path, os) ==
    LET seps == IF os = "nt" THEN {"/", "\\"} ELSE {"/"}
        drive == IF os = "nt" /\ Len(path) >= 2 /\ path[2] = ":" THEN 2 ELSE 0
        start == Len(path) - Len(seg)
    IN /\ start >= drive
       /\ seg = SubSeq(path, start + 1, Len(path))
       /\ \A k \in 1..Len(seg) : seg[k] \notin seps
       /\ start > drive => path[start] \in seps

\* C29 (DisplaySpec): display_text() returns two lines.  The second is the
\* path.  The first is the name when the name is not empty, else the final
\* segment of the path when that is not empty, else the path, followed,
\* when the tags are neither None nor empty, by two spaces and the tags in
\* square brackets.
DisplayTextTwoLines ==
    shown.text # <<>>
    => LET name == Chars(shown.name)
           path == Chars(shown.path)
           tags == IF shown.tags = None THEN <<>> ELSE Chars(shown.tags)
           text == shown.text
       IN \E n \in 1..Len(text) :
             /\ text[n] = "\n"
             /\ \A k \in 1..Len(text) : text[k] = "\n" => k = n
             /\ SubSeq(text, n + 1, Len(text)) = path
             /\ \E label \in {SubSeq(text, 1, k) : k \in 0..(n - 1)} :
                   /\ IF name # <<>> THEN label = name
                      ELSE IF IsFinalSegment(<<>>, path, shown.os)
                      THEN label = path
                      ELSE IsFinalSegment(label, path, shown.os)
                   /\ SubSeq(text, Len(label) + 1, n - 1)
                      = IF tags = <<>> THEN <<>>
                        ELSE <<" ", " ", "[">> \o tags \o <<"]">>

\* a record without a name, with tags, whose path ends in the segment f
DisplayTextTwoLinesWitness ==
    /\ shown.name = "" /\ shown.path = "d/f" /\ shown.tags = "t"
    /\ shown.text = <<"f", " ", " ", "[", "t", "]", "\n", "d", "/", "f">>

\* C30 (Spec): reorder(ordered_ids), whatever ids the list holds, returns
\* without error, adds and removes no record, leaves name, path, tags,
\* custom_icon and added_at of every record as they were, and leaves the
\* position of every record whose id is not in the list as it was.
ReorderChangesOnlyListedPositions ==
    [][\A s \in Stores :
          (last'.op = "reorder" /\ last'.s = s /\ IsOpen(s))
          => /\ last'.result = "ok"
             /\ DOMAIN file'.rows = DOMAIN file.rows
             /\ file'.seq = file.seq
             /\ \A i \in DOMAIN file.rows :
                   /\ file'.rows[i].name = file.rows[i].name
                   /\ file'.rows[i].path = file.rows[i].path
                   /\ file'.rows[i].tags = file.rows[i].tags
                   /\ file'.rows[i].custom_icon = file.rows[i].custom_icon
                   /\ file'.rows[i].added_at = file.rows[i].added_at
                   /\ (\A k \in 1..Len(last'.ids) : last'.ids[k] # i)
                      => file'.rows[i].position = file.rows[i].position]_vars

\* reorder([3, 1]) returned on a store that holds the records 1 and 2:
\* record 1 moved to position 1, record 2 stayed at position 1
ReorderChangesOnlyListedPositionsWitness ==
    /\ last.op = "reorder" /\ last.result = "ok"
    /\ last.ids = <<3, 1>>
    /\ DOMAIN file.rows = {1, 2}
    /\ file.rows[1].position = 1
    /\ file.rows[2].position = 1

====
